---- MODULE Spec2Model ----
(***************************************************************************)
(* Consolidation-and-identity-resolution pipeline of kiro_usage.           *)
(*                                                                         *)
(*  - KiroReportConsolidator (consolidate_kiro_reports_fixed.py): file     *)
(*    discovery with embedded-date parsing, per-file ingestion, merge with *)
(*    dedup and sort.  Specification: Spec.                                *)
(*  - IAMIdentityCenterMapper (iam_identity_center_mapper.py): identity    *)
(*    cache with a 24 h TTL and directory fallback.  Specification:        *)
(*    SpecMapper.                                                          *)
(*                                                                         *)
(* Python strings that the code slices, searches or orders are modelled as *)
(* sequences of one-character strings.                                     *)
(***************************************************************************)
EXTENDS Integers, Sequences, FiniteSets, TLC

\* Python's None, where a record could stand instead.
None == [none |-> TRUE]

(***************************************************************************)
(* Strings                                                                 *)
(***************************************************************************)

\* The characters the model uses, in code-point order.
Chars ==
    <<"-", ".", "/", "0", "1", "2", "3", "4", "5", "6", "7", "8", "9",
      "U", "_", "a", "b", "c", "d", "e", "f", "g", "i", "l", "n", "o",
      "p", "r", "s", "t", "u", "v", "x", "y", "z">>

Digits == <<"0", "1", "2", "3", "4", "5", "6", "7", "8", "9">>

Ord(c) == CHOOSE i \in 1..Len(Chars) : Chars[i] = c

IsDigit(c) == \E i \in 1..Len(Digits) : Digits[i] = c

DigitVal(c) == (CHOOSE i \in 1..Len(Digits) : Digits[i] = c) - 1

IsLower(c) == Ord(c) >= Ord("a")

\* int(s) for a string of decimal digits.
RECURSIVE ToInt(_)
ToInt(s) ==
    IF s = <<>> THEN 0
    ELSE 10 * ToInt(SubSeq(s, 1, Len(s) - 1)) + DigitVal(s[Len(s)])

\* Python's str comparison: lexicographic by code point, a proper prefix first.
RECURSIVE StrLess(_, _)
StrLess(a, b) ==
    IF b = <<>> THEN FALSE
    ELSE IF a = <<>> THEN TRUE
    ELSE IF a[1] # b[1] THEN Ord(a[1]) < Ord(b[1])
    ELSE StrLess(Tail(a), Tail(b))

\* s.endswith(suffix)
EndsWith(s, suffix) ==
    /\ Len(s) >= Len(suffix)
    /\ SubSeq(s, Len(s) - Len(suffix) + 1, Len(s)) = suffix

\* key.split('/')[-1]
LastSegment(key) ==
    LET slashes == {i \in 1..Len(key) : key[i] = "/"}
        last == IF slashes = {} THEN 0
                ELSE CHOOSE i \in slashes : \A j \in slashes : j <= i
    IN  SubSeq(key, last + 1, Len(key))

(***************************************************************************)
(* datetime                                                                *)
(***************************************************************************)

\* A naive datetime: a calendar date and the seconds since its midnight.
DateTime(y, m, d, s) == [year |-> y, month |-> m, day |-> d, secs |-> s]

IsLeap(y) == (y % 4 = 0 /\ y % 100 # 0) \/ y % 400 = 0

DaysInMonth(y, m) ==
    IF m = 2 THEN (IF IsLeap(y) THEN 29 ELSE 28)
    ELSE IF m \in {4, 6, 9, 11} THEN 30 ELSE 31

\* datetime.__lt__
DtLess(a, b) ==
    \/ a.year < b.year
    \/ a.year = b.year /\ a.month < b.month
    \/ a.year = b.year /\ a.month = b.month /\ a.day < b.day
    \/ a.year = b.year /\ a.month = b.month /\ a.day = b.day /\ a.secs < b.secs

DtLeq(a, b) == ~DtLess(b, a)

\* The decimal digits of n, zero-padded on the left to width w.
RECURSIVE Pad(_, _)
Pad(n, w) ==
    IF w = 0 THEN <<>> ELSE Pad(n \div 10, w - 1) \o <<Digits[(n % 10) + 1]>>

\* A variant with the format '%Y%m%d'.
strftime_compact(dt) ==
    Pad(dt.year, 4) \o Pad(dt.month, 2) \o Pad(dt.day, 2)

\* file_date.strftime('%Y-%m-%d'), for years of four digits.
strftime(dt) ==
    Pad(dt.year, 4) \o <<"-">> \o Pad(dt.month, 2) \o <<"-">> \o Pad(dt.day, 2)

(***************************************************************************)
(* DateToken parser                                                        *)
(***************************************************************************)

TokenLen == 12
DateLen == 8

\* The positions i where the pattern _(\d{12})_ matches filename at i.
TokenMatches(filename) ==
    {i \in 1..Len(filename) :
        /\ i + TokenLen + 1 <= Len(filename)
        /\ filename[i] = "_"
        /\ \A k \in 1..TokenLen : IsDigit(filename[i + k])
        /\ filename[i + TokenLen + 1] = "_"}

\* re.search(...).group(1): the digits of the leftmost match (when there is one).
FirstToken(filename) ==
    LET ms == TokenMatches(filename)
        i == CHOOSE m \in ms : \A n \in ms : m <= n
    IN  SubSeq(filename, i + 1, i + TokenLen)

ValueError == [raised |-> "ValueError"]

\* datetime.strptime(date_str, '%Y%m%d') for a string of 8 digits: the fields
\* are taken 4-2-2, and a month, day or year outside the calendar is a
\* ValueError.
strptime(date_str) ==
    LET y == ToInt(SubSeq(date_str, 1, 4))
        m == ToInt(SubSeq(date_str, 5, 6))
        d == ToInt(SubSeq(date_str, 7, 8))
    IN  IF y >= 1 /\ m \in 1..12 /\ d >= 1 /\ d <= DaysInMonth(y, m)
        THEN DateTime(y, m, d, 0)
        ELSE ValueError

\* A variant whose pattern lacks the leading underscore: a 12-digit account
\* id at the start of the name matches first.
extract_date_unanchored(filename) ==
    LET ms == {i \in 0..Len(filename) :
                  /\ i + TokenLen + 1 <= Len(filename)
                  /\ \A k \in 1..TokenLen : IsDigit(filename[i + k])
                  /\ filename[i + TokenLen + 1] = "_"}
        i == CHOOSE m \in ms : \A n \in ms : m <= n
    IN  IF ms = {} THEN ValueError
        ELSE strptime(SubSeq(filename, i + 1, i + DateLen))

\* A variant that checks no calendar: the day is taken as written.
extract_date_unchecked(filename) ==
    LET token == FirstToken(filename)
    IN  IF TokenMatches(filename) = {} THEN ValueError
        ELSE DateTime(ToInt(SubSeq(token, 1, 4)), ToInt(SubSeq(token, 5, 6)),
                      ToInt(SubSeq(token, 7, 8)), 0)

\* extract_date_from_filename: the datetime, or ValueError when it raises.
extract_date_from_filename(filename) ==
    IF TokenMatches(filename) = {} THEN ValueError
    ELSE strptime(SubSeq(FirstToken(filename), 1, DateLen))

(***************************************************************************)
(* The object store                                                        *)
(***************************************************************************)

Prefix == <<"p", "/">>
Account == <<"1", "1", "1", "1", "2", "2", "2", "2", "3", "3", "3", "3">>
\* An account id whose first eight digits read as the date 2024-01-01.
AccountDateLike == <<"2", "0", "2", "4", "0", "1", "0", "1", "0", "0", "0", "0">>
ByUserAnalytic == <<"_", "b", "y", "_", "u", "s", "e", "r", "_", "a", "n", "a", "l", "y", "t", "i", "c", "_">>
UserReport == <<"_", "u", "s", "e", "r", "_", "r", "e", "p", "o", "r", "t", "_">>
ReportCsv == <<"_", "r", "e", "p", "o", "r", "t", ".", "c", "s", "v">>
DotCsv == <<".", "c", "s", "v">>
Tok1019 == <<"2", "0", "2", "5", "1", "0", "1", "9", "0", "0", "0", "0">>
Tok1020 == <<"2", "0", "2", "5", "1", "0", "2", "0", "0", "0", "0", "0">>
Tok1020b == <<"2", "0", "2", "5", "1", "0", "2", "0", "0", "9", "0", "0">>
Tok1021 == <<"2", "0", "2", "5", "1", "0", "2", "1", "0", "0", "0", "0">>
TokLeap == <<"2", "0", "2", "4", "0", "2", "2", "9", "0", "0", "0", "0">>
TokFeb30 == <<"2", "0", "2", "5", "0", "2", "3", "0", "0", "0", "0", "0">>

u1 == <<"u", "1">>
u2 == <<"u", "2">>
U1 == <<"U", "1">>

\* One row of a report: the key columns and one counter.
Row(user, date, chat) == [UserId |-> user, Date |-> date, Chat_MessagesSent |-> chat]

\* Stored objects under the prefix: report files of the filename grammar
\* <account>_<report_type>_<12-digit-token>_report.csv, and files that only
\* share the prefix.
ObjA == [Key |-> Prefix \o AccountDateLike \o ByUserAnalytic \o Tok1020 \o ReportCsv,
         Body |-> <<Row(u1, "2025-10-20", 5), Row(u2, "2025-10-20", 1)>>]
ObjB == [Key |-> Prefix \o Account \o ByUserAnalytic \o Tok1020b \o ReportCsv,
         Body |-> <<Row(u1, "2025-10-20", 9)>>]
ObjC == [Key |-> Prefix \o Account \o UserReport \o Tok1021 \o ReportCsv,
         Body |-> <<Row(u1, "2025-10-20", 7), Row(U1, "2025-10-21", 3)>>]
ObjLeap == [Key |-> Prefix \o <<"x", "/">> \o Account \o ByUserAnalytic \o TokLeap \o ReportCsv,
            Body |-> <<Row(u2, "2024-02-29", 2), Row(u2, "2024-02-29", 4)>>]
\* a header and no rows
ObjHeaderOnly == [Key |-> Prefix \o Account \o ByUserAnalytic \o Tok1019 \o ReportCsv,
                  Body |-> <<>>]
\* 30 February
ObjFeb30 == [Key |-> Prefix \o Account \o ByUserAnalytic \o TokFeb30 \o ReportCsv,
             Body |-> <<Row(u1, "2025-10-20", 8)>>]
\* twelve digits, but not between two underscores
ObjBare == [Key |-> Prefix \o Tok1019 \o ReportCsv,
            Body |-> <<Row(u2, "2025-10-19", 6)>>]
\* a dated name that does not end in .csv
ObjGz == [Key |-> Prefix \o Account \o ByUserAnalytic \o Tok1019 \o ReportCsv \o <<".", "g", "z">>,
          Body |-> <<Row(u1, "2025-10-19", 1)>>]

Objects == {ObjA, ObjB, ObjC, ObjLeap, ObjHeaderOnly, ObjFeb30, ObjBare, ObjGz}

\* The most objects under the prefix.
MaxObjects == 3
\* The most keys the store returns for one listing request (1000 for S3).
PageSize == 2

\* The stores: the objects under the prefix, in the order the store lists them.
Buckets ==
    {b \in UNION {[1..n -> Objects] : n \in 0..MaxObjects} :
        \A i, j \in 1..Len(b) : i # j => b[i].Key # b[j].Key}

\* s3.list_objects_v2(Bucket, Prefix): the first page only.
list_objects_v2(objs) ==
    [Contents |-> SubSeq(objs, 1, IF Len(objs) < PageSize THEN Len(objs) ELSE PageSize),
     IsTruncated |-> Len(objs) > PageSize]

(***************************************************************************)
(* File Catalog                                                            *)
(***************************************************************************)

\* A variant of the date filter that excludes the bounds themselves.
InDateRangeExclusive(file_date, start_date, end_date) ==
    /\ ~(start_date # None /\ DtLeq(file_date, start_date))
    /\ ~(end_date # None /\ DtLeq(end_date, file_date))

\* The date filter of list_csv_files: neither `continue` is taken.
InDateRange(file_date, start_date, end_date) ==
    /\ ~(start_date # None /\ DtLess(file_date, start_date))
    /\ ~(end_date # None /\ DtLess(end_date, file_date))

\* One pass of the loop of list_csv_files: what obj adds to csv_files.
CatalogEntry(obj, start_date, end_date) ==
    LET file_date == extract_date_from_filename(LastSegment(obj.Key))
    IN  IF /\ EndsWith(obj.Key, DotCsv)
           /\ file_date # ValueError
           /\ InDateRange(file_date, start_date, end_date)
        THEN <<[key |-> obj.Key, date |-> file_date]>>
        ELSE <<>>

\* A variant that returns the files in listing order.
unsorted(csv_files) == csv_files

\* sorted(csv_files, key=lambda x: x['date']): stable, ascending.
RECURSIVE sorted_by_date(_)
sorted_by_date(csv_files) ==
    IF csv_files = <<>> THEN <<>>
    ELSE LET n == Len(csv_files)
             front == sorted_by_date(SubSeq(csv_files, 1, n - 1))
             x == csv_files[n]
             k == Cardinality({i \in 1..Len(front) : DtLeq(front[i].date, x.date)})
         IN  SubSeq(front, 1, k) \o <<x>> \o SubSeq(front, k + 1, Len(front))

\* The loop of list_csv_files over response['Contents']: csv_files before sorting.
RECURSIVE csv_files_of(_, _, _)
csv_files_of(contents, start_date, end_date) ==
    IF contents = <<>> THEN <<>>
    ELSE CatalogEntry(Head(contents), start_date, end_date)
         \o csv_files_of(Tail(contents), start_date, end_date)

\* list_csv_files(start_date, end_date).  listing_ok = FALSE: the listing
\* request raises, and the method returns [].
list_csv_files(objs, listing_ok, start_date, end_date) ==
    IF ~listing_ok THEN <<>>
    ELSE sorted_by_date(csv_files_of(list_objects_v2(objs).Contents,
                                     start_date, end_date))

(***************************************************************************)
(* Report Ingestor                                                         *)
(***************************************************************************)

\* s3.get_object(Bucket, Key): the stored object of that key.
get_object(objs, key) == objs[CHOOSE i \in 1..Len(objs) : objs[i].Key = key]

\* download_and_parse_csv(key): the rows of the file, each with the column
\* ReportDate set from the filename; the empty DataFrame when the download or
\* the parse raises (unreadable = TRUE).
download_and_parse_csv(objs, key, unreadable) ==
    LET file_date == extract_date_from_filename(LastSegment(key))
        body == get_object(objs, key).Body
    IN  IF unreadable \/ file_date = ValueError THEN <<>>
        ELSE [i \in 1..Len(body) |->
                [UserId |-> body[i].UserId,
                 Date |-> body[i].Date,
                 Chat_MessagesSent |-> body[i].Chat_MessagesSent,
                 ReportDate |-> strftime(file_date)]]

(***************************************************************************)
(* Consolidator                                                            *)
(***************************************************************************)

\* The rows of df at the positions in keep, in order.
RECURSIVE RowsAt(_, _, _)
RowsAt(df, keep, i) ==
    IF i > Len(df) THEN <<>>
    ELSE (IF i \in keep THEN <<df[i]>> ELSE <<>>) \o RowsAt(df, keep, i + 1)

SameKey(a, b) == a.UserId = b.UserId /\ a.Date = b.Date

\* A variant with keep='first'.
drop_duplicates_keep_first(df) ==
    RowsAt(df, {i \in 1..Len(df) : ~\E j \in 1..(i - 1) : SameKey(df[i], df[j])}, 1)

\* df.drop_duplicates(subset=['UserId', 'Date'], keep='last')
drop_duplicates(df) ==
    RowsAt(df, {i \in 1..Len(df) : ~\E j \in (i + 1)..Len(df) : SameKey(df[i], df[j])}, 1)

\* Row order of sort_values(['ReportDate', 'UserId']): a comes no later than b.
RowLeq(a, b) ==
    \/ StrLess(a.ReportDate, b.ReportDate)
    \/ a.ReportDate = b.ReportDate /\ ~StrLess(b.UserId, a.UserId)

\* A variant that sorts on ReportDate alone.
RECURSIVE sort_values_by_date_only(_)
sort_values_by_date_only(df) ==
    IF df = <<>> THEN <<>>
    ELSE LET n == Len(df)
             front == sort_values_by_date_only(SubSeq(df, 1, n - 1))
             x == df[n]
             k == Cardinality({i \in 1..Len(front) :
                                  ~StrLess(x.ReportDate, front[i].ReportDate)})
         IN  SubSeq(front, 1, k) \o <<x>> \o SubSeq(front, k + 1, Len(front))

\* df.sort_values(['ReportDate', 'UserId']): stable, ascending.
RECURSIVE sort_values(_)
sort_values(df) ==
    IF df = <<>> THEN <<>>
    ELSE LET n == Len(df)
             front == sort_values(SubSeq(df, 1, n - 1))
             x == df[n]
             k == Cardinality({i \in 1..Len(front) : RowLeq(front[i], x)})
         IN  SubSeq(front, 1, k) \o <<x>> \o SubSeq(front, k + 1, Len(front))

\* pd.concat(all_dataframes, ignore_index=True)
RECURSIVE concat(_)
concat(all_dataframes) ==
    IF all_dataframes = <<>> THEN <<>>
    ELSE Head(all_dataframes) \o concat(Tail(all_dataframes))

\* The loop of consolidate_reports over csv_files: one download per file, in
\* the order of csv_files.
RECURSIVE download_all(_, _, _)
download_all(objs, csv_files, broken) ==
    IF csv_files = <<>> THEN <<>>
    ELSE <<[key |-> Head(csv_files).key,
            df |-> download_and_parse_csv(objs, Head(csv_files).key,
                                          Head(csv_files).key \in broken)]>>
         \o download_all(objs, Tail(csv_files), broken)

\* all_dataframes: the batches that are not empty, in download order.
RECURSIVE all_dataframes(_)
all_dataframes(batches) ==
    IF batches = <<>> THEN <<>>
    ELSE (IF Head(batches).df # <<>> THEN <<Head(batches).df>> ELSE <<>>)
         \o all_dataframes(Tail(batches))

\* A variant that gives up when one download returned nothing.
consolidate_all_or_nothing(batches) ==
    IF \E i \in 1..Len(batches) : batches[i].df = <<>> THEN <<>>
    ELSE sort_values(drop_duplicates(concat(all_dataframes(batches))))

\* The rest of consolidate_reports, after the downloads: the consolidated
\* DataFrame (the empty one when no file was found or no file had rows).
consolidate(batches) ==
    LET frames == all_dataframes(batches)
    IN  IF frames = <<>> THEN <<>>
        ELSE sort_values(drop_duplicates(concat(frames)))

\* The cataloged files whose batch is empty because the download or the parse
\* raised, one "file_failed" each, in download order.
RECURSIVE file_failures(_, _)
file_failures(batches, broken) ==
    IF batches = <<>> THEN <<>>
    ELSE (IF Head(batches).key \in broken THEN <<"file_failed">> ELSE <<>>)
         \o file_failures(Tail(batches), broken)

\* A variant without the check of all_dataframes: pd.concat of an empty list
\* raises.
diagnostics_unchecked(listing_ok, catalog, batches, broken) ==
    [messages |->
        (IF ~listing_ok THEN <<"listing_failed">> ELSE <<>>)
        \o (IF catalog = <<>> THEN <<"no_files">>
            ELSE file_failures(batches, broken)),
     raised |-> catalog # <<>> /\ all_dataframes(batches) = <<>>]

\* What list_csv_files, download_and_parse_csv and consolidate_reports print
\* when data is missing, and whether an exception leaves consolidate_reports:
\* the listing and each download are wrapped in try/except, and pd.concat is
\* only reached with a non-empty all_dataframes.
diagnostics(listing_ok, catalog, batches, broken) ==
    [messages |->
        (IF ~listing_ok THEN <<"listing_failed">> ELSE <<>>)
        \o (IF catalog = <<>> THEN <<"no_files">>
            ELSE file_failures(batches, broken)
                 \o (IF all_dataframes(batches) = <<>>
                     THEN <<"no_valid_data">> ELSE <<>>)),
     raised |-> FALSE]

(***************************************************************************)
(* Region aggregator: KiroTrackerWithIAM.consolidate_region_data           *)
(***************************************************************************)

\* SUPPORTED_REGIONS, for two of its regions.
SUPPORTED_REGIONS ==
    [region \in {"us-east-1", "ap-northeast-2"} |->
        IF region = "us-east-1" THEN "US East (N. Virginia)"
        ELSE "Asia Pacific (Seoul)"]

Regions == DOMAIN SUPPORTED_REGIONS

\* The selections of st.sidebar.multiselect: lists of regions without repeats.
RegionLists ==
    {l \in UNION {[1..n -> Regions] : n \in 0..Cardinality(Regions)} :
        \A i, j \in 1..Len(l) : i # j => l[i] # l[j]}

\* What a region's prefix may hold when a run reaches it, by name.
RegionStores ==
    [empty |-> <<>>, two_files |-> <<ObjA, ObjB>>, one_file |-> <<ObjC>>]

\* The columns of a consolidated report, and of the multi-region artifact.
ReportColumns == <<"UserId", "Date", "Chat_MessagesSent", "ReportDate">>
ArtifactColumns == ReportColumns \o <<"Region", "RegionName">>

\* df.to_csv(path, index=False): a header line and one line of cells per row,
\* in row order; the row labels are not written.
to_csv(df, columns) ==
    [header |-> columns,
     lines |-> [i \in 1..Len(df) |-> [c \in 1..Len(columns) |-> df[i][columns[c]]]]]

\* pd.read_csv(path): one row per line, the cells named by the header.
read_csv(doc) ==
    [i \in 1..Len(doc.lines) |->
        [col \in {doc.header[c] : c \in 1..Len(doc.header)} |->
            doc.lines[i][CHOOSE c \in 1..Len(doc.header) : doc.header[c] = col]]]

\* consolidate_reports() as the command line calls it: no date bounds (--days
\* is not given), and here no listing or download failing.
consolidate_reports(objs) ==
    consolidate(download_all(objs, list_csv_files(objs, TRUE, None, None), {}))

\* What it returns over each store of the model.
ConsolidatedStore ==
    [store \in DOMAIN RegionStores |-> consolidate_reports(RegionStores[store])]

\* What can go wrong with the subprocess of one region:
\*   "exit1"              it exits non-zero before it writes anything
\*   "exit1_after_write"  it raises in the summary that follows to_csv
\*   "timeout"            subprocess.run raises TimeoutExpired
\*   "unreadable"         pd.read_csv of its output raises
Faults == {"none", "exit1", "exit1_after_write", "timeout", "unreadable"}

\* main() of consolidate_kiro_reports_fixed.py, run with --prefix and --output,
\* where consolidate_reports returns consolidated_df: the exit status, and the
\* document written to --output (None when nothing is written).  Without data
\* main returns before it writes, with status 0.
main(consolidated_df, fault) ==
    IF fault = "exit1" THEN [returncode |-> 1, output |-> None]
    ELSE IF consolidated_df = <<>> THEN [returncode |-> 0, output |-> None]
    ELSE [returncode |-> IF fault = "exit1_after_write" THEN 1 ELSE 0,
          output |-> to_csv(consolidated_df, ReportColumns)]

\* The files with path |-> doc written, and with path removed.
WriteFile(files, path, doc) ==
    [f \in DOMAIN files \cup {path} |-> IF f = path THEN doc ELSE files[f]]

Unlink(files, path) == [f \in DOMAIN files \ {path} |-> files[f]]

\* A variant that labels the rows with the region code.
with_region_code(df, region) ==
    [i \in 1..Len(df) |->
        [col \in DOMAIN df[i] \cup {"Region", "RegionName"} |->
            IF col \in {"Region", "RegionName"} THEN region ELSE df[i][col]]]

\* df['Region'] = region; df['RegionName'] = SUPPORTED_REGIONS[region]
with_region(df, region) ==
    [i \in 1..Len(df) |->
        [col \in DOMAIN df[i] \cup {"Region", "RegionName"} |->
            IF col = "Region" THEN region
            ELSE IF col = "RegionName" THEN SUPPORTED_REGIONS[region]
            ELSE df[i][col]]]

\* The loop of consolidate_region_data over the regions still to process.
\* env[region] is the store of the region's prefix and the fault of its
\* subprocess, datasets[store] what consolidate_reports returns over a store;
\* st holds all_dataframes, the files data/temp_<region>.csv, the
\* messages shown, the regions whose subprocess was started, the exit status
\* of those that ended, the regions whose temp file was read without having
\* been written by this run, and whether an exception left the loop.
RECURSIVE region_loop(_, _, _, _)
region_loop(regions, env, datasets, st) ==
    IF regions = <<>> \/ st.raised THEN st
    ELSE
        LET region == Head(regions)
            started == [st EXCEPT !.messages = Append(@, [level |-> "write", region |-> region]),
                                  !.processed = Append(@, region)]
        IN  IF env[region].fault = "timeout"
            THEN [started EXCEPT !.raised = TRUE]
            ELSE
              LET result == main(datasets[env[region].store], env[region].fault)
                  files == IF result.output # None
                           THEN WriteFile(st.temp_files, region, result.output)
                           ELSE st.temp_files
                  ran == [started EXCEPT
                            !.temp_files = files,
                            !.returncodes =
                                [r \in DOMAIN st.returncodes \cup {region} |->
                                    IF r = region THEN result.returncode
                                    ELSE st.returncodes[r]]]
              IN  IF result.returncode = 0
                  THEN IF region \in DOMAIN files
                       THEN IF env[region].fault = "unreadable"
                            THEN [ran EXCEPT !.raised = TRUE]
                            ELSE
                              LET df == read_csv(files[region])
                              IN  region_loop(Tail(regions), env, datasets,
                                    [ran EXCEPT
                                       !.all_dataframes =
                                           IF df # <<>> THEN Append(@, with_region(df, region))
                                           ELSE @,
                                       !.temp_files = Unlink(files, region),
                                       !.stale_read =
                                           IF result.output = None THEN @ \cup {region} ELSE @,
                                       !.messages =
                                           Append(@, [level |-> "success", region |-> region])])
                       ELSE region_loop(Tail(regions), env, datasets,
                              [ran EXCEPT !.messages =
                                  Append(@, [level |-> "success", region |-> region])])
                  ELSE region_loop(Tail(regions), env, datasets,
                         [ran EXCEPT !.messages =
                             Append(@, [level |-> "warning", region |-> region])])

\* datetime.now().strftime('%Y%m%d_%H%M%S') at `wall` microseconds after
\* 2025-10-22 00:00:00: the microseconds are not part of the name.
timestamp_of(wall) ==
    LET secs == wall \div 1000000
    IN  Pad(2025, 4) \o Pad(10, 2) \o Pad(22 + secs \div 86400, 2) \o <<"_">>
        \o Pad((secs % 86400) \div 3600, 2) \o Pad((secs % 3600) \div 60, 2)
        \o Pad(secs % 60, 2)

\* consolidate_region_data(regions) with the temp files `files` in data/ and
\* the clock at `wall` when the artifact is named: the value returned, the
\* messages, the temp files afterwards and the artifact written (None when
\* none is).
consolidate_region_data(regions, env, datasets, files, wall) ==
    LET st == region_loop(regions, env, datasets,
                [all_dataframes |-> <<>>, temp_files |-> files, messages |-> <<>>,
                 processed |-> <<>>, returncodes |-> <<>>, stale_read |-> {},
                 raised |-> FALSE])
        outcome == [result |-> FALSE, messages |-> st.messages,
                    temp_files |-> st.temp_files, processed |-> st.processed,
                    returncodes |-> st.returncodes,
                    stale_read |-> st.stale_read, raised |-> st.raised,
                    written |-> None]
    IN  IF st.raised
        THEN [outcome EXCEPT
                !.messages = Append(@, [level |-> "error", region |-> "exception"])]
        ELSE IF st.all_dataframes = <<>>
        THEN [outcome EXCEPT
                !.messages = Append(@, [level |-> "error", region |-> "all"])]
        ELSE [outcome EXCEPT
                !.result = TRUE,
                !.messages = Append(@, [level |-> "success", region |-> "all"]),
                !.written = [path |-> timestamp_of(wall),
                             doc |-> to_csv(concat(st.all_dataframes), ArtifactColumns)]]

(***************************************************************************)
(* Identity cache: IAMIdentityCenterMapper                                 *)
(***************************************************************************)

\* The cache TTL, in seconds.
TTL == 86400
\* The length of the user_id prefix in a fallback name.
PrefixLen == 8

\* A user of the directory, and an id the directory does not know.
UidA == <<"9", "4", "4", "8", "a", "4", "f", "8", "-", "3", "0", "c", "1">>
UidB == <<"u", "-", "0", "7">>
UserIds == {UidA, UidB}
DirectoryUsers == {UidA}

\* What describe_user answers for UidA: the attributes may change between two
\* calls, and optional attributes may be missing (.get gives "").
DescribeUserResponses ==
    {[UserName |-> <<"a", "l", "i", "c", "e">>,
      DisplayName |-> <<"A", "l", "i", "c", "e">>,
      GivenName |-> <<"A", "l">>, FamilyName |-> <<"L", "i">>,
      Emails |-> <<[Value |-> <<"a", "@", "x">>], [Value |-> <<"b", "@", "x">>]>>],
     [UserName |-> <<"a", "l", "i", "c", "e", "2">>,
      DisplayName |-> <<>>,
      GivenName |-> <<>>, FamilyName |-> <<>>,
      Emails |-> <<>>]}

\* describe_user raises (the service cannot be reached, or the user is unknown).
ClientError == [raised |-> "ClientError"]

\* The state of the directory for one call: "ok", "error" (unreachable) or
\* "not_found"; and what describe_user does in that state.
DirectoryState(user_id, up) ==
    IF ~up THEN "error"
    ELSE IF user_id \in DirectoryUsers THEN "ok" ELSE "not_found"

DescribeUser(user_id, up) ==
    IF DirectoryState(user_id, up) = "ok" THEN DescribeUserResponses ELSE {ClientError}

Client == [client |-> "identitystore"]
StoreId == [IdentityStoreId |-> "d-1"]

\* initialize_clients with get_identity_store_id: the client and the store id
\* the constructor ends with, and the number of list_instances requests made.
\*   "connected"      list_instances returned an instance
\*   "no_instance"    list_instances returned none, or raised
\*   "client_failed"  boto3.client raised, before get_identity_store_id
initialize_clients(outcome) ==
    CASE outcome = "connected" ->
            [identity_store_client |-> Client, identity_store_id |-> StoreId,
             list_instances |-> 1]
      [] outcome = "no_instance" ->
            [identity_store_client |-> Client, identity_store_id |-> None,
             list_instances |-> 1]
      [] outcome = "client_failed" ->
            [identity_store_client |-> None, identity_store_id |-> None,
             list_instances |-> 0]

\* load_cache: the document of the store file (empty when there is no file);
\* the JSON document of a dict of str keys and str or float values reads back
\* as that dict.
load_cache(file) == file

\* A variant that adds the cache to what the file holds.
save_cache_merging(cache, file, written) ==
    IF written
    THEN [k \in DOMAIN file \cup DOMAIN cache |->
             IF k \in DOMAIN cache THEN cache[k] ELSE file[k]]
    ELSE file

\* save_cache: json.dump(self.user_cache) over the store file.  written =
\* FALSE: mkdir or open raises; save_cache prints the exception and the file
\* stays as it was.
save_cache(cache, file, written) == IF written THEN cache ELSE file

\* The dict with cache[user_id] = user_info.
Store(cache, user_id, user_info) ==
    [k \in DOMAIN cache \cup {user_id} |->
        IF k = user_id THEN user_info ELSE cache[k]]

\* A variant that treats an entry of exactly the TTL's age as fresh.
IsFreshInclusive(cached_info, t) == t - cached_info.cached_at <= TTL

\* time.time() - cached_info.get("cached_at", 0) < 86400
IsFresh(cached_info, t) == t - cached_info.cached_at < TTL

\* A variant that takes the last of the e-mail addresses.
DirectoryRecordLastEmail(user_id, response, t) ==
    [user_id |-> user_id,
     username |-> response.UserName,
     display_name |-> response.DisplayName,
     email |-> IF response.Emails # <<>>
               THEN response.Emails[Len(response.Emails)].Value ELSE <<>>,
     first_name |-> response.GivenName,
     last_name |-> response.FamilyName,
     cached_at |-> t,
     source |-> "iam_identity_center"]

\* The record built from a describe_user response.
DirectoryRecord(user_id, response, t) ==
    [user_id |-> user_id,
     username |-> response.UserName,
     display_name |-> response.DisplayName,
     email |-> IF response.Emails # <<>> THEN response.Emails[1].Value ELSE <<>>,
     first_name |-> response.GivenName,
     last_name |-> response.FamilyName,
     cached_at |-> t,
     source |-> "iam_identity_center"]

UserDash == <<"U", "s", "e", "r", "-">>

\* A variant that names the fallback after the whole id.
FallbackWholeId(user_id, t) ==
    [user_id |-> user_id,
     username |-> UserDash \o user_id,
     display_name |-> UserDash \o user_id,
     email |-> <<>>, first_name |-> <<>>, last_name |-> <<>>,
     cached_at |-> t,
     source |-> "fallback"]

\* The default record: f"User-{user_id[:8]}"
Fallback(user_id, t) ==
    LET prefix == SubSeq(user_id, 1, IF Len(user_id) < PrefixLen
                                     THEN Len(user_id) ELSE PrefixLen)
    IN  [user_id |-> user_id,
         username |-> UserDash \o prefix,
         display_name |-> UserDash \o prefix,
         email |-> <<>>, first_name |-> <<>>, last_name |-> <<>>,
         cached_at |-> t,
         source |-> "fallback"]

\* A variant that stores the fallback record in the cache (without saving).
get_user_info_caching_fallback(cache, file, client, store_id, user_id, t, response, written) ==
    IF user_id \in DOMAIN cache /\ IsFresh(cache[user_id], t)
    THEN [result |-> cache[user_id], user_cache |-> cache, cache_file |-> file,
          describe_user |-> 0, save_cache |-> 0, cached |-> TRUE]
    ELSE IF client # None /\ store_id # None /\ response # ClientError
    THEN LET user_info == DirectoryRecord(user_id, response, t)
         IN  [result |-> user_info,
              user_cache |-> Store(cache, user_id, user_info),
              cache_file |-> save_cache(Store(cache, user_id, user_info), file, written),
              describe_user |-> 1, save_cache |-> 1, cached |-> TRUE]
    ELSE [result |-> Fallback(user_id, t),
          user_cache |-> Store(cache, user_id, Fallback(user_id, t)),
          cache_file |-> file,
          describe_user |-> IF client # None /\ store_id # None THEN 1 ELSE 0,
          save_cache |-> 0, cached |-> TRUE]

\* A variant that serves the entry it has, however old, when the directory
\* does not answer.
get_user_info_serving_stale(cache, file, client, store_id, user_id, t, response, written) ==
    IF user_id \in DOMAIN cache /\ IsFresh(cache[user_id], t)
    THEN [result |-> cache[user_id], user_cache |-> cache, cache_file |-> file,
          describe_user |-> 0, save_cache |-> 0, cached |-> TRUE]
    ELSE IF client # None /\ store_id # None /\ response # ClientError
    THEN LET user_info == DirectoryRecord(user_id, response, t)
         IN  [result |-> user_info,
              user_cache |-> Store(cache, user_id, user_info),
              cache_file |-> save_cache(Store(cache, user_id, user_info), file, written),
              describe_user |-> 1, save_cache |-> 1, cached |-> TRUE]
    ELSE [result |-> IF user_id \in DOMAIN cache THEN cache[user_id]
                     ELSE Fallback(user_id, t),
          user_cache |-> cache, cache_file |-> file,
          describe_user |-> IF client # None /\ store_id # None THEN 1 ELSE 0,
          save_cache |-> 0, cached |-> user_id \in DOMAIN cache]

\* get_user_info(user_id) at time t, where describe_user answers `response`
\* if it is called and the store file can be written or not: the record
\* returned, the cache and the store file afterwards, the number of
\* describe_user and save_cache calls made, and whether the dict returned is
\* the one the cache holds (lines 98 and 127 return the entry itself; the
\* default record is a new dict).
get_user_info(cache, file, client, store_id, user_id, t, response, written) ==
    IF user_id \in DOMAIN cache /\ IsFresh(cache[user_id], t)
    THEN [result |-> cache[user_id], user_cache |-> cache, cache_file |-> file,
          describe_user |-> 0, save_cache |-> 0, cached |-> TRUE]
    ELSE IF client # None /\ store_id # None
    THEN IF response # ClientError
         THEN LET user_info == DirectoryRecord(user_id, response, t)
              IN  [result |-> user_info,
                   user_cache |-> Store(cache, user_id, user_info),
                   cache_file |-> save_cache(Store(cache, user_id, user_info), file, written),
                   describe_user |-> 1, save_cache |-> 1, cached |-> TRUE]
         ELSE [result |-> Fallback(user_id, t), user_cache |-> cache,
               cache_file |-> file, describe_user |-> 1, save_cache |-> 0,
               cached |-> FALSE]
    ELSE [result |-> Fallback(user_id, t), user_cache |-> cache,
          cache_file |-> file, describe_user |-> 0, save_cache |-> 0,
          cached |-> FALSE]

\* ---- The operations over the whole directory ----

\* A user of the directory that get_user_info is never asked about.
UidC == <<"c", "-", "0", "9">>

Alice == <<"a", "l", "i", "c", "e">>
Nobody == <<"n", "o", "b", "o", "d", "y">>

\* The users as list_users shows them.
UserA ==
    [UserId |-> UidA, UserName |-> Alice,
     DisplayName |-> <<"A", "l", "i", "c", "e">>,
     GivenName |-> <<"A", "l">>, FamilyName |-> <<"L", "i">>,
     Emails |-> <<[Value |-> <<"a", "@", "x">>], [Value |-> <<"b", "@", "x">>]>>]
UserC ==
    [UserId |-> UidC, UserName |-> <<"c", "a", "r", "o", "l">>,
     DisplayName |-> <<>>, GivenName |-> <<>>, FamilyName |-> <<>>,
     Emails |-> <<>>]

\* A page of list_users: its users, and the token of the page that follows
\* (None on the last page).
Page(users, next_token) == [Users |-> users, NextToken |-> next_token]
Token(k) == [page |-> k]

\* What the directory answers to the successive list_users requests of one
\* list_all_users call: the pages, or a ClientError in place of a page.
DirectoryListings ==
    {<<Page(<<UserA, UserC>>, None)>>,
     <<Page(<<UserA>>, Token(2)), Page(<<UserC>>, None)>>,
     <<Page(<<>>, Token(2)), Page(<<UserC, UserA>>, None)>>,
     <<Page(<<UserC>>, Token(2)), Page(<<>>, Token(3)), Page(<<UserA>>, None)>>,
     <<Page(<<UserA>>, Token(2)), ClientError>>,
     <<ClientError>>}

\* list_users(IdentityStoreId) and list_users(IdentityStoreId, NextToken).
list_users(listing, next_token) ==
    listing[IF next_token = None THEN 1 ELSE next_token.page]

\* list_users with the UserName filter.
list_users_filtered(username, up) ==
    IF ~up THEN ClientError
    ELSE [Users |-> IF username = UserA.UserName THEN <<UserA>> ELSE <<>>]

\* The record list_all_users builds from one listed user.
ListedRecord(user, t) ==
    [user_id |-> user.UserId,
     username |-> user.UserName,
     display_name |-> user.DisplayName,
     email |-> IF user.Emails # <<>> THEN user.Emails[1].Value ELSE <<>>,
     first_name |-> user.GivenName,
     last_name |-> user.FamilyName,
     cached_at |-> t,
     source |-> "iam_identity_center"]

\* A variant that makes the listed users the whole cache.
cache_only_users(cache, user_infos) ==
    [k \in {user_infos[i].user_id : i \in DOMAIN user_infos} |->
        user_infos[CHOOSE i \in DOMAIN user_infos :
                      /\ user_infos[i].user_id = k
                      /\ \A j \in DOMAIN user_infos :
                            user_infos[j].user_id = k => j <= i]]

\* self.user_cache[user["UserId"]] = user_info for the users of one page, in
\* page order.
cache_users(cache, user_infos) ==
    [k \in DOMAIN cache \cup {user_infos[i].user_id : i \in DOMAIN user_infos} |->
        IF \E i \in DOMAIN user_infos : user_infos[i].user_id = k
        THEN user_infos[CHOOSE i \in DOMAIN user_infos :
                           /\ user_infos[i].user_id = k
                           /\ \A j \in DOMAIN user_infos :
                                 user_infos[j].user_id = k => j <= i]
        ELSE cache[k]]

\* One pass of the while loop: the users of one page appended and cached.
page_done(response, t, st) ==
    LET user_infos == [i \in DOMAIN response.Users |->
                          ListedRecord(response.Users[i], t)]
    IN  [users |-> st.users \o user_infos,
         user_cache |-> cache_users(st.user_cache, user_infos),
         tokens |-> Append(st.tokens, response.NextToken),
         raised |-> FALSE]

\* A variant that stops after the first page.
list_users_first_page(listing, next_token, t, st) ==
    LET response == list_users(listing, next_token)
    IN  IF response = ClientError
        THEN [st EXCEPT !.tokens = Append(@, ClientError), !.raised = TRUE]
        ELSE page_done(response, t, st)

\* The while loop of list_all_users: request a page, take its users, go on
\* with NextToken until a page has none; a ClientError leaves the loop.
\* st.tokens is what each request gave as NextToken.
RECURSIVE list_users_loop(_, _, _, _)
list_users_loop(listing, next_token, t, st) ==
    LET response == list_users(listing, next_token)
    IN  IF response = ClientError
        THEN [st EXCEPT !.tokens = Append(@, ClientError), !.raised = TRUE]
        ELSE IF response.NextToken = None
        THEN page_done(response, t, st)
        ELSE list_users_loop(listing, response.NextToken, t,
                             page_done(response, t, st))

\* A variant without the check of the client and the store id.
list_all_users_unguarded(cache, file, client, store_id, listing, t, written) ==
    LET st == list_users_loop(listing, None, t,
                  [users |-> <<>>, user_cache |-> cache,
                   tokens |-> <<>>, raised |-> FALSE])
    IN  IF st.raised
        THEN [result |-> <<>>, user_cache |-> st.user_cache,
              cache_file |-> file, tokens |-> st.tokens,
              save_cache |-> 0, raised |-> TRUE]
        ELSE [result |-> st.users, user_cache |-> st.user_cache,
              cache_file |-> save_cache(st.user_cache, file, written),
              tokens |-> st.tokens, save_cache |-> 1, raised |-> FALSE]

\* list_all_users() at time t against a directory that answers `listing`: the
\* list returned, the cache and the store file afterwards, what the
\* list_users requests gave as NextToken, the number of save_cache calls, and
\* whether the except branch was taken.
list_all_users(cache, file, client, store_id, listing, t, written) ==
    IF client = None \/ store_id = None
    THEN [result |-> <<>>, user_cache |-> cache, cache_file |-> file,
          tokens |-> <<>>, save_cache |-> 0, raised |-> FALSE]
    ELSE LET st == list_users_loop(listing, None, t,
                       [users |-> <<>>, user_cache |-> cache,
                        tokens |-> <<>>, raised |-> FALSE])
         IN  IF st.raised
             THEN [result |-> <<>>, user_cache |-> st.user_cache,
                   cache_file |-> file, tokens |-> st.tokens,
                   save_cache |-> 0, raised |-> TRUE]
             ELSE [result |-> st.users, user_cache |-> st.user_cache,
                   cache_file |-> save_cache(st.user_cache, file, written),
                   tokens |-> st.tokens, save_cache |-> 1, raised |-> FALSE]

\* search_user_by_username(username): None, or what get_user_info gives for
\* the first user the filter finds; directory_calls counts the list_users
\* and describe_user requests made.
search_user_by_username(cache, file, client, store_id, username, t, up, response, written) ==
    LET found == list_users_filtered(username, up)
        none == [result |-> None, user_cache |-> cache, cache_file |-> file,
                 directory_calls |-> 1]
    IN  IF client = None \/ store_id = None
        THEN [none EXCEPT !.directory_calls = 0]
        ELSE IF found = ClientError THEN none
        ELSE IF found.Users = <<>> THEN none
        ELSE LET r == get_user_info(cache, file, client, store_id,
                                    found.Users[1].UserId, t, response, written)
             IN  [result |-> r.result, user_cache |-> r.user_cache,
                  cache_file |-> r.cache_file,
                  directory_calls |-> 1 + r.describe_user]

\* bulk_get_users(user_ids): get_user_info for each id in turn; done holds
\* the dict built so far and the number of describe_user requests made.
RECURSIVE bulk_get_users(_, _, _, _, _, _, _, _, _)
bulk_get_users(cache, file, client, store_id, user_ids, t, responses, written, done) ==
    IF user_ids = <<>>
    THEN [result |-> done.results, user_cache |-> cache, cache_file |-> file,
          directory_calls |-> done.describe_user]
    ELSE LET user_id == Head(user_ids)
             r == get_user_info(cache, file, client, store_id, user_id, t,
                                responses[user_id], written)
         IN  bulk_get_users(r.user_cache, r.cache_file, client, store_id,
                            Tail(user_ids), t, responses, written,
                            [results |->
                                [k \in DOMAIN done.results \cup {user_id} |->
                                    IF k = user_id THEN r.result
                                    ELSE done.results[k]],
                             describe_user |-> done.describe_user + r.describe_user])

\* get_cache_stats(): the numbers of entries, of directory entries and of
\* default entries in the cache, and whether the mapper is connected.
get_cache_stats(cache, client, store_id) ==
    [total_users |-> Cardinality(DOMAIN cache),
     iam_users |-> Cardinality({k \in DOMAIN cache :
                                   cache[k].source = "iam_identity_center"}),
     fallback_users |-> Cardinality({k \in DOMAIN cache :
                                        cache[k].source = "fallback"}),
     identity_store_connected |-> client # None /\ store_id # None]

(***************************************************************************)
(* State                                                                   *)
(***************************************************************************)

VARIABLES
    bucket,           \* the objects stored under base_prefix, in listing order
    op,               \* the method of KiroReportConsolidator that has run
    start_date,       \* its arguments
    end_date,
    listing_ok,       \* whether its listing request was answered
    broken,           \* the keys whose download or parse raised
    csv_files,        \* what list_csv_files returned
    downloads,        \* the keys passed to download_and_parse_csv, in call order
    consolidated_df,  \* what consolidate_reports returned
    again,            \* what a second, identical call returned
    diagnostic,       \* what consolidate_reports printed, and whether it raised
    user_cache,            \* IAMIdentityCenterMapper.user_cache
    cache_file,            \* the document in data/user_cache.json
    identity_store_client, \* IAMIdentityCenterMapper.identity_store_client
    identity_store_id,     \* IAMIdentityCenterMapper.identity_store_id
    now,                   \* time.time()
    log,                   \* the calls made on the mapper, with what each did
    held,                  \* the record a consumer got from its last call
    call,                  \* the last call of an operation over the directory
    list_instances,        \* the list_instances requests made so far
    mappers,               \* two processes' mappers over one store file
    last_save,             \* the last write of the store file by one of them
    steps,                 \* the operations the two processes have run
    temp_files,       \* the files data/temp_<region>.csv, by region
    data_dir,         \* the files data/consolidated_multiregion_<timestamp>.csv
    wall,             \* the local clock, in microseconds
    datasets,         \* what consolidate_reports returns over each region store
    run               \* the last call of consolidate_region_data

reportVars ==
    <<bucket, op, start_date, end_date, listing_ok, broken, csv_files,
      downloads, consolidated_df, again, diagnostic>>

mapperVars ==
    <<user_cache, cache_file, identity_store_client, identity_store_id, now, log,
      held, call, list_instances, mappers, last_save, steps>>

regionVars == <<temp_files, data_dir, wall, datasets, run>>

vars == <<reportVars, mapperVars, regionVars>>

Range(seq) == {seq[i] : i \in 1..Len(seq)}

(***************************************************************************)
(* The consolidation pipeline: Spec                                        *)
(***************************************************************************)

\* The date bounds a caller passes: none, a midnight (--start-date,
\* --end-date), or a time of day (--days: datetime.now()).
StartBounds == {None, DateTime(2025, 10, 20, 0), DateTime(2025, 10, 20, 3600)}
EndBounds == {None, DateTime(2025, 10, 20, 0)}

\* No consolidator has run.
ReportsIdle ==
    /\ op = "none"
    /\ start_date = None
    /\ end_date = None
    /\ listing_ok = TRUE
    /\ broken = {}
    /\ csv_files = <<>>
    /\ downloads = <<>>
    /\ consolidated_df = <<>>
    /\ again = [done |-> FALSE, df |-> <<>>]
    /\ diagnostic = [messages |-> <<>>, raised |-> FALSE]

\* No operation over the directory has been called.  writable: the store
\* file could be written in every call so far.
NoCall ==
    [n |-> 0, op |-> "none", at |-> 0, arg |-> None, before |-> <<>>,
     result |-> None, tokens |-> <<>>, directory_calls |-> 0,
     written |-> FALSE, writable |-> TRUE, raised |-> FALSE]

Processes == {"P1", "P2"}

NotStarted == [started |-> FALSE, at |-> 0, loaded |-> <<>>, user_cache |-> <<>>]

NoSave == [by |-> "none", step |-> 0, dropped |-> {}]

\* No second process shares the store file.
Unshared ==
    /\ mappers = [p \in Processes |-> NotStarted]
    /\ last_save = NoSave
    /\ steps = 0

\* No mapper has been constructed.
MapperIdle ==
    /\ user_cache = <<>>
    /\ cache_file = <<>>
    /\ identity_store_client = None
    /\ identity_store_id = None
    /\ now = 0
    /\ log = <<>>
    /\ held = None
    /\ call = NoCall
    /\ list_instances = 0
    /\ Unshared

\* consolidate_region_data has not been called, and data/ holds none of its
\* files.
NoRun ==
    [n |-> 0, regions |-> <<>>, env |-> <<>>, result |-> FALSE, messages |-> <<>>,
     processed |-> <<>>, returncodes |-> <<>>, stale_read |-> {},
     raised |-> FALSE, written |-> None, existed |-> FALSE]

RegionsIdle ==
    /\ temp_files = <<>>
    /\ data_dir = {}
    /\ wall = 0
    /\ datasets = <<>>
    /\ run = NoRun

Init ==
    /\ bucket \in Buckets
    /\ ReportsIdle
    /\ MapperIdle
    /\ RegionsIdle

\* list_csv_files(start_date, end_date), called on its own.
ListCsvFiles ==
    /\ op = "none"
    /\ \E ok \in BOOLEAN, sd \in StartBounds, ed \in EndBounds :
        /\ op' = "list_csv_files"
        /\ start_date' = sd
        /\ end_date' = ed
        /\ listing_ok' = ok
        /\ csv_files' = list_csv_files(bucket, ok, sd, ed)
    /\ UNCHANGED <<bucket, broken, downloads, consolidated_df, again, diagnostic>>
    /\ UNCHANGED mapperVars
    /\ UNCHANGED regionVars

\* consolidate_reports(start_date, end_date): the catalog, one download per
\* cataloged file, the merge.  At most one of the downloads raises.
ConsolidateReports ==
    /\ op = "none"
    /\ \E ok \in BOOLEAN, sd \in StartBounds, ed \in EndBounds :
        /\ op' = "consolidate_reports"
        /\ start_date' = sd
        /\ end_date' = ed
        /\ listing_ok' = ok
        /\ csv_files' = list_csv_files(bucket, ok, sd, ed)
    /\ \E brk \in {{}} \cup {{f.key} : f \in Range(csv_files')} :
        LET batches == download_all(bucket, csv_files', brk)
        IN  /\ broken' = brk
            /\ downloads' = [i \in 1..Len(batches) |-> batches[i].key]
            /\ consolidated_df' = consolidate(batches)
            /\ diagnostic' = diagnostics(listing_ok', csv_files', batches, brk)
    /\ UNCHANGED <<bucket, again>>
    /\ UNCHANGED mapperVars
    /\ UNCHANGED regionVars

\* A catalog in the opposite order.
Reversed(catalog) ==
    [i \in 1..Len(catalog) |-> catalog[Len(catalog) + 1 - i]]

\* A variant of the second call that goes through the catalog backwards.
ConsolidateReportsAgainBackwards ==
    /\ op = "consolidate_reports"
    /\ ~again.done
    /\ \E catalog \in {list_csv_files(bucket, listing_ok, start_date, end_date)} :
          again' = [done |-> TRUE,
                    df |-> consolidate(download_all(bucket, Reversed(catalog), broken))]
    /\ UNCHANGED <<bucket, op, start_date, end_date, listing_ok, broken,
                   csv_files, downloads, consolidated_df, diagnostic>>
    /\ UNCHANGED mapperVars
    /\ UNCHANGED regionVars

\* consolidate_reports(start_date, end_date) called once more on the same
\* consolidator: the store lists and serves what it did for the first call.
ConsolidateReportsAgain ==
    /\ op = "consolidate_reports"
    /\ ~again.done
    /\ \E catalog \in {list_csv_files(bucket, listing_ok, start_date, end_date)} :
          again' = [done |-> TRUE,
                    df |-> consolidate(download_all(bucket, catalog, broken))]
    /\ UNCHANGED <<bucket, op, start_date, end_date, listing_ok, broken,
                   csv_files, downloads, consolidated_df, diagnostic>>
    /\ UNCHANGED mapperVars
    /\ UNCHANGED regionVars

Next == ListCsvFiles \/ ConsolidateReports \/ ConsolidateReportsAgain

Spec == Init /\ [][Next]_vars

(***************************************************************************)
(* The identity cache: SpecMapper                                          *)
(***************************************************************************)

\* The most calls made on one mapper.
MaxOps == 3

\* The clock at construction.
Epoch == 2 * TTL

\* The seconds between one call and the next.
Delays == {1, TTL - 1, TTL}

\* The store file a mapper may find: none, an entry for UidA written at Epoch,
\* or an old entry for UidB (since removed from the directory).
InitialStores ==
    {<<>>,
     [k \in {UidA} |->
        DirectoryRecord(UidA, CHOOSE r \in DescribeUserResponses : r.Emails # <<>>, Epoch)],
     [k \in {UidB} |->
        DirectoryRecord(UidB, CHOOSE r \in DescribeUserResponses : r.Emails = <<>>, 0)]}

\* __init__: load_cache, then initialize_clients.
MapperInit ==
    /\ bucket = <<>>
    /\ ReportsIdle
    /\ RegionsIdle
    /\ cache_file \in InitialStores
    /\ user_cache = load_cache(cache_file)
    /\ \E outcome \in {"connected", "no_instance", "client_failed"} :
        /\ identity_store_client = initialize_clients(outcome).identity_store_client
        /\ identity_store_id = initialize_clients(outcome).identity_store_id
        /\ list_instances = initialize_clients(outcome).list_instances
    /\ now = Epoch
    /\ log = <<>>
    /\ held = None
    /\ call = NoCall
    /\ Unshared

\* get_user_info(user_id), dt seconds after the previous call, with the
\* directory reachable or not and the store file writable or not.
GetUserInfo ==
    /\ Len(log) < MaxOps
    /\ \E user_id \in UserIds, dt \in Delays, up \in BOOLEAN, written \in BOOLEAN :
       \E response \in DescribeUser(user_id, up) :
        LET t == now + dt
            r == get_user_info(user_cache, cache_file, identity_store_client,
                               identity_store_id, user_id, t, response, written)
        IN  /\ now' = t
            /\ user_cache' = r.user_cache
            /\ cache_file' = r.cache_file
            /\ held' = [user_id |-> user_id, cached |-> r.cached,
                        returned |-> r.result, value |-> r.result]
            /\ log' = Append(log,
                  [op |-> "get_user_info",
                   user_id |-> user_id,
                   at |-> t,
                   directory |-> DirectoryState(user_id, up),
                   cached_before |-> IF user_id \in DOMAIN user_cache
                                     THEN user_cache[user_id] ELSE None,
                   result |-> r.result,
                   response |-> IF r.describe_user = 1 THEN response ELSE None,
                   describe_user |-> r.describe_user,
                   save_cache |-> r.save_cache,
                   written |-> r.save_cache = 1 /\ written,
                   cache_unchanged |-> r.user_cache = user_cache,
                   file_unchanged |-> r.cache_file = cache_file])
    /\ UNCHANGED <<identity_store_client, identity_store_id, call, list_instances,
                   mappers, last_save, steps>>
    /\ UNCHANGED reportVars
    /\ UNCHANGED regionVars

MapperNext == GetUserInfo

SpecMapper == MapperInit /\ [][MapperNext]_vars

(***************************************************************************)
(* The mapper with a consumer that writes to the record it was handed.     *)
(***************************************************************************)

\* The value the consumer writes.
Edited == <<"e", "d", "i", "t", "e", "d">>

\* A caller assigns to display_name of the dict its last get_user_info call
\* returned.  A cache hit returns self.user_cache[user_id] itself and a
\* resolution returns the dict it has just stored, so the assignment is made
\* to the cache's entry; the default record is a dict of its own.
ConsumerSetsField ==
    /\ held # None
    /\ held.value.display_name # Edited
    /\ held' = [held EXCEPT !.value.display_name = Edited]
    /\ user_cache' = IF held.cached
                     THEN [user_cache EXCEPT ![held.user_id].display_name = Edited]
                     ELSE user_cache
    /\ UNCHANGED <<cache_file, identity_store_client, identity_store_id, now, log,
                   call, list_instances, mappers, last_save, steps>>
    /\ UNCHANGED reportVars
    /\ UNCHANGED regionVars

ConsumerNext == GetUserInfo \/ ConsumerSetsField

SpecConsumer == MapperInit /\ [][ConsumerNext]_vars

(***************************************************************************)
(* The mapper under its operations over the directory.                     *)
(***************************************************************************)

\* How many calls are followed.
MaxCalls == 2

\* The time between two calls.
Pauses == {1, TTL}

\* The lists bulk_get_users is called with (the trackers pass unique ids); a
\* list of one id is get_user_info for that id.
BulkLists == {<<UidA>>, <<UidB>>, <<UidB, UidA>>}

Usernames == {Alice, Nobody}

\* bulk_get_users(user_ids), dt seconds after the previous call.
BulkGetUsers ==
    /\ call.n < MaxCalls
    /\ \E user_ids \in BulkLists, dt \in Pauses, up \in BOOLEAN :
       \E response \in DescribeUser(UidA, up),
          written \in (IF up THEN BOOLEAN ELSE {TRUE}) :
       \E r \in {bulk_get_users(user_cache, cache_file, identity_store_client,
                                identity_store_id, user_ids, now + dt,
                                [u \in UserIds |->
                                    IF u = UidA THEN response ELSE ClientError],
                                written,
                                [results |-> <<>>, describe_user |-> 0])} :
            /\ now' = now + dt
            /\ user_cache' = r.user_cache
            /\ cache_file' = r.cache_file
            /\ call' = [n |-> call.n + 1, op |-> "bulk_get_users",
                        at |-> now + dt, arg |-> user_ids,
                        before |-> user_cache, result |-> r.result,
                        tokens |-> <<>>,
                        directory_calls |-> r.directory_calls,
                        written |-> r.cache_file # cache_file,
                        writable |-> call.writable /\ written,
                        raised |-> FALSE]
    /\ UNCHANGED <<identity_store_client, identity_store_id, log, held,
                   list_instances, mappers, last_save, steps>>
    /\ UNCHANGED reportVars
    /\ UNCHANGED regionVars

\* search_user_by_username(username), dt seconds after the previous call.
SearchUserByUsername ==
    /\ call.n < MaxCalls
    /\ \E username \in Usernames, dt \in Pauses, up \in BOOLEAN :
       \E response \in (IF username = Alice
                        THEN DescribeUser(UidA, up) \cup {ClientError}
                        ELSE {ClientError}),
          written \in (IF up /\ username = Alice THEN BOOLEAN ELSE {TRUE}) :
       \E r \in {search_user_by_username(user_cache, cache_file,
                                         identity_store_client, identity_store_id,
                                         username, now + dt, up, response,
                                         written)} :
            /\ now' = now + dt
            /\ user_cache' = r.user_cache
            /\ cache_file' = r.cache_file
            /\ call' = [n |-> call.n + 1, op |-> "search_user_by_username",
                        at |-> now + dt, arg |-> username,
                        before |-> user_cache, result |-> r.result,
                        tokens |-> <<>>,
                        directory_calls |-> r.directory_calls,
                        written |-> r.cache_file # cache_file,
                        writable |-> call.writable /\ written,
                        raised |-> FALSE]
    /\ UNCHANGED <<identity_store_client, identity_store_id, log, held,
                   list_instances, mappers, last_save, steps>>
    /\ UNCHANGED reportVars
    /\ UNCHANGED regionVars

\* list_all_users(), dt seconds after the previous call.
ListAllUsers ==
    /\ call.n < MaxCalls
    /\ \E listing \in DirectoryListings, dt \in Pauses, written \in BOOLEAN :
       \E r \in {list_all_users(user_cache, cache_file, identity_store_client,
                                identity_store_id, listing, now + dt, written)} :
            /\ now' = now + dt
            /\ user_cache' = r.user_cache
            /\ cache_file' = r.cache_file
            /\ call' = [n |-> call.n + 1, op |-> "list_all_users",
                        at |-> now + dt, arg |-> listing,
                        before |-> user_cache, result |-> r.result,
                        tokens |-> r.tokens,
                        directory_calls |-> Len(r.tokens),
                        written |-> r.save_cache = 1 /\ written,
                        writable |-> call.writable /\ written,
                        raised |-> r.raised]
    /\ UNCHANGED <<identity_store_client, identity_store_id, log, held,
                   list_instances, mappers, last_save, steps>>
    /\ UNCHANGED reportVars
    /\ UNCHANGED regionVars

DirectoryNext == BulkGetUsers \/ SearchUserByUsername \/ ListAllUsers

SpecDirectory == MapperInit /\ [][DirectoryNext]_vars

(***************************************************************************)
(* Two processes, each with its own mapper, over one store file.           *)
(***************************************************************************)

\* How many operations of the two processes are followed.
MaxSteps == 3

\* The store file is there before either process starts; both mappers get
\* connected.
SharedInit ==
    /\ bucket = <<>>
    /\ ReportsIdle
    /\ RegionsIdle
    /\ cache_file \in InitialStores
    /\ user_cache = <<>>
    /\ identity_store_client = Client
    /\ identity_store_id = StoreId
    /\ list_instances = 0
    /\ now = Epoch
    /\ log = <<>>
    /\ held = None
    /\ call = NoCall
    /\ Unshared

\* What a write of the store file by process p in this step leaves to know:
\* the keys the file held before and no longer holds.
SaveBy(p, file_after) ==
    [by |-> p, step |-> steps + 1,
     dropped |-> DOMAIN cache_file \ DOMAIN file_after]

\* Process p constructs its mapper: load_cache reads the store file.
StartProcess ==
    /\ \E p \in Processes :
        /\ ~mappers[p].started
        /\ mappers' = [mappers EXCEPT ![p] =
                          [started |-> TRUE, at |-> now,
                           loaded |-> cache_file,
                           user_cache |-> load_cache(cache_file)]]
    /\ UNCHANGED <<user_cache, cache_file, identity_store_client,
                   identity_store_id, now, log, held, call, list_instances,
                   last_save, steps>>
    /\ UNCHANGED reportVars
    /\ UNCHANGED regionVars

\* Process p calls get_user_info(user_id), a second after the last operation.
ProcessGetUserInfo ==
    /\ steps < MaxSteps
    /\ \E p \in Processes, user_id \in UserIds, written \in BOOLEAN :
       \E response \in DescribeUser(user_id, TRUE) :
       \E r \in {get_user_info(mappers[p].user_cache, cache_file,
                               identity_store_client, identity_store_id,
                               user_id, now + 1, response, written)} :
            /\ mappers[p].started
            /\ mappers' = [mappers EXCEPT ![p].user_cache = r.user_cache]
            /\ cache_file' = r.cache_file
            /\ last_save' = IF r.save_cache = 1 /\ written
                            THEN SaveBy(p, r.cache_file) ELSE last_save
    /\ now' = now + 1
    /\ steps' = steps + 1
    /\ UNCHANGED <<user_cache, identity_store_client, identity_store_id, log,
                   held, call, list_instances>>
    /\ UNCHANGED reportVars
    /\ UNCHANGED regionVars

\* Process p calls list_all_users(), a second after the last operation.
ProcessListAllUsers ==
    /\ steps < MaxSteps
    /\ \E p \in Processes, listing \in DirectoryListings, written \in BOOLEAN :
       \E r \in {list_all_users(mappers[p].user_cache, cache_file,
                                identity_store_client, identity_store_id,
                                listing, now + 1, written)} :
            /\ mappers[p].started
            /\ mappers' = [mappers EXCEPT ![p].user_cache = r.user_cache]
            /\ cache_file' = r.cache_file
            /\ last_save' = IF r.save_cache = 1 /\ written
                            THEN SaveBy(p, r.cache_file) ELSE last_save
    /\ now' = now + 1
    /\ steps' = steps + 1
    /\ UNCHANGED <<user_cache, identity_store_client, identity_store_id, log,
                   held, call, list_instances>>
    /\ UNCHANGED reportVars
    /\ UNCHANGED regionVars

SharedNext == StartProcess \/ ProcessGetUserInfo \/ ProcessListAllUsers

SpecShared == SharedInit /\ [][SharedNext]_vars

(***************************************************************************)
(* The region aggregator: SpecRegions                                      *)
(***************************************************************************)

\* The most calls of consolidate_region_data.
MaxRuns == 2

\* For each region, what its prefix holds and what goes wrong with its
\* subprocess.  A fault after the output was written needs data to write.
RegionEnvs ==
    {[store |-> store, fault |-> "none"] : store \in DOMAIN RegionStores}
    \cup {[store |-> "two_files", fault |-> f] : f \in Faults \ {"none"}}

\* The microseconds between the naming of one artifact and the next: half a
\* second, or a second.
Elapsed == {500000, 1000000}

RegionsInit ==
    /\ bucket = <<>>
    /\ ReportsIdle
    /\ MapperIdle
    /\ temp_files = <<>>
    /\ data_dir = {}
    /\ wall = 0
    /\ datasets = ConsolidatedStore
    /\ run = NoRun

\* consolidate_region_data(regions): one subprocess per region, the temp files
\* read and removed, the artifact written under the name of the clock.
ConsolidateRegionData ==
    /\ run.n < MaxRuns
    /\ \E regions \in RegionLists, dt \in Elapsed :
       \E env \in [Range(regions) -> RegionEnvs] :
       \E r \in {consolidate_region_data(regions, env, datasets, temp_files, wall + dt)} :
            /\ wall' = wall + dt
            /\ temp_files' = r.temp_files
            /\ data_dir' = IF r.written # None THEN data_dir \cup {r.written.path}
                           ELSE data_dir
            /\ run' = [n |-> run.n + 1,
                       regions |-> regions,
                       env |-> env,
                       result |-> r.result,
                       messages |-> r.messages,
                       processed |-> r.processed,
                       returncodes |-> r.returncodes,
                       stale_read |-> r.stale_read,
                       raised |-> r.raised,
                       written |-> r.written,
                       existed |-> r.written # None /\ r.written.path \in data_dir]
    /\ UNCHANGED datasets
    /\ UNCHANGED reportVars
    /\ UNCHANGED mapperVars

RegionsNext == ConsolidateRegionData

SpecRegions == RegionsInit /\ [][RegionsNext]_vars

(***************************************************************************)
(* Properties of the consolidation pipeline (checked under Spec)           *)
(***************************************************************************)

Listed == op \in {"list_csv_files", "consolidate_reports"}

\* The page of the listing the method worked on.
ListedObjects == list_objects_v2(bucket).Contents

CatalogKeys == {csv_files[i].key : i \in 1..Len(csv_files)}

\* The rows handed to the dedup step, in processing order: the batch of each
\* downloaded file, in download order.
RECURSIVE InputRowsFrom(_)
InputRowsFrom(keys) ==
    IF keys = <<>> THEN <<>>
    ELSE download_and_parse_csv(bucket, Head(keys), Head(keys) \in broken)
         \o InputRowsFrom(Tail(keys))

InputRows == InputRowsFrom(downloads)

\* C4 (dedup law): the output of consolidate_reports holds at most one record
\* per (UserId, Date), every key of the input survives, and the surviving
\* record of a key is the input row of that key that comes last in processing
\* order.
C4_DedupLaw ==
    op = "consolidate_reports" =>
        LET rows == InputRows
        IN  /\ \A i, j \in 1..Len(consolidated_df) :
                  i # j => ~SameKey(consolidated_df[i], consolidated_df[j])
            /\ \A i \in 1..Len(rows) :
                  \E r \in 1..Len(consolidated_df) :
                      SameKey(consolidated_df[r], rows[i])
            /\ \A r \in 1..Len(consolidated_df) :
                  \E i \in 1..Len(rows) :
                      /\ rows[i] = consolidated_df[r]
                      /\ \A j \in (i + 1)..Len(rows) : ~SameKey(rows[j], rows[i])

\* Batches [A, B] of the same date share the key (u1, 2025-10-20); the output
\* carries B's 9, not A's 5.
C4_Witness ==
    /\ op = "consolidate_reports"
    /\ downloads = <<ObjA.Key, ObjB.Key>>
    /\ broken = {}
    /\ \E r \in 1..Len(consolidated_df) :
          /\ consolidated_df[r].UserId = u1
          /\ consolidated_df[r].Date = "2025-10-20"
          /\ consolidated_df[r].Chat_MessagesSent = 9

\* C5 (sort law): the output of consolidate_reports is non-decreasing in
\* (ReportDate, UserId), compared lexicographically.
C5_SortLaw ==
    op = "consolidate_reports" =>
        \A i \in 1..(Len(consolidated_df) - 1) :
            LET a == consolidated_df[i]
                b == consolidated_df[i + 1]
            IN  \/ StrLess(a.ReportDate, b.ReportDate)
                \/ /\ a.ReportDate = b.ReportDate
                   /\ (a.UserId = b.UserId \/ StrLess(a.UserId, b.UserId))

\* Three rows whose processing order (u2, u1, U1) is not the sorted order.
C5_Witness ==
    /\ op = "consolidate_reports"
    /\ Len(consolidated_df) = 3
    /\ Len(InputRows) = 4
    /\ InputRows[3].UserId = u1
    /\ InputRows[4].UserId = U1
    /\ consolidated_df[2].UserId = U1
    /\ consolidated_df[3].UserId = u1
    /\ consolidated_df[2].ReportDate = consolidated_df[3].ReportDate

\* The filename grammar <account>_<report_type>_<12-digit-token>_report.csv:
\* the account is a run of digits, the report type a name of lower-case
\* letters and underscores.
IsGrammarName(filename) ==
    LET n == Len(filename)
        t == n - Len(ReportCsv) - TokenLen   \* the underscore before the token
        firsts == {i \in 1..n : filename[i] = "_"}
        p == CHOOSE i \in firsts : \A j \in firsts : i <= j
    IN  /\ EndsWith(filename, ReportCsv)
        /\ t >= 4
        /\ filename[t] = "_"
        /\ \A k \in 1..TokenLen : IsDigit(filename[t + k])
        /\ p >= 2
        /\ p + 1 < t
        /\ \A k \in 1..(p - 1) : IsDigit(filename[k])
        /\ \A k \in (p + 1)..(t - 1) : filename[k] = "_" \/ IsLower(filename[k])

\* The token of a name of the grammar, and the date its first 8 digits spell.
GrammarToken(filename) ==
    SubSeq(filename, Len(filename) - Len(ReportCsv) - TokenLen + 1,
           Len(filename) - Len(ReportCsv))

IsCalendarDate(digits) ==
    LET y == ToInt(SubSeq(digits, 1, 4))
        m == ToInt(SubSeq(digits, 5, 6))
        d == ToInt(SubSeq(digits, 7, 8))
    IN  /\ y >= 1
        /\ m >= 1 /\ m <= 12
        /\ d >= 1
        /\ d <= (IF m = 2 THEN (IF IsLeap(y) THEN 29 ELSE 28)
                 ELSE IF m \in {4, 6, 9, 11} THEN 30 ELSE 31)

YYYYMMDD(digits) ==
    [year |-> ToInt(SubSeq(digits, 1, 4)), month |-> ToInt(SubSeq(digits, 5, 6)),
     day |-> ToInt(SubSeq(digits, 7, 8)), secs |-> 0]

\* What the grammar says of each filename of the model: whether it matches,
\* and the date its token spells (None when that is no calendar date).
Filenames == {LastSegment(o.Key) : o \in Objects}

GrammarDate ==
    [f \in Filenames |->
        IF IsGrammarName(f) /\ IsCalendarDate(GrammarToken(f))
        THEN YYYYMMDD(GrammarToken(f)) ELSE None]

DelimitedTokens(filename) ==
    {i \in 1..(Len(filename) - TokenLen - 1) :
        /\ filename[i] = "_"
        /\ filename[i + TokenLen + 1] = "_"
        /\ \A k \in 1..TokenLen : IsDigit(filename[i + k])}

HasDelimitedToken(filename) == DelimitedTokens(filename) # {}

\* The first such token does not start with a calendar date.
TokenNotADate(filename) ==
    /\ HasDelimitedToken(filename)
    /\ LET i == CHOOSE a \in DelimitedTokens(filename) :
                   \A b \in DelimitedTokens(filename) : a <= b
       IN  ~IsCalendarDate(SubSeq(filename, i + 1, i + DateLen))

\* The filenames with no underscore-delimited 12-digit token, or whose token
\* does not start with a calendar date.
Malformed ==
    {f \in Filenames : ~HasDelimitedToken(f) \/ TokenNotADate(f)}

\* The date spelled by the first token of the other filenames.
TokenDate ==
    [f \in Filenames \ Malformed |->
        LET i == CHOOSE a \in DelimitedTokens(f) : \A b \in DelimitedTokens(f) : a <= b
        IN  YYYYMMDD(SubSeq(f, i + 1, i + DateLen))]

WithinBounds(d) ==
    /\ (start_date = None \/ DtLeq(start_date, d))
    /\ (end_date = None \/ DtLeq(d, end_date))

\* C7: every listed .csv key whose filename has no underscore-delimited
\* 12-digit token, or whose token does not start with a calendar date, fails
\* date extraction and is absent from the result of list_csv_files, and the
\* other listed files (dated, within the bounds) are all cataloged.
C7_MalformedSkipped ==
    (Listed /\ listing_ok) =>
        \A i \in 1..Len(ListedObjects) :
            LET o == ListedObjects[i]
            IN  (EndsWith(o.Key, DotCsv) /\ LastSegment(o.Key) \in Malformed) =>
                    /\ extract_date_from_filename(LastSegment(o.Key)) = ValueError
                    /\ o.Key \notin CatalogKeys
                    /\ \A j \in 1..Len(ListedObjects) :
                          LET q == ListedObjects[j]
                          IN  (/\ EndsWith(q.Key, DotCsv)
                               /\ LastSegment(q.Key) \notin Malformed
                               /\ WithinBounds(TokenDate[LastSegment(q.Key)]))
                              => q.Key \in CatalogKeys

\* A listing of the 30-February file and a well-formed file: the first is
\* skipped, the second cataloged.
C7_Witness ==
    /\ op = "list_csv_files"
    /\ listing_ok
    /\ \E i, j \in 1..Len(ListedObjects) :
          /\ i < j
          /\ ListedObjects[i].Key \in {ObjFeb30.Key, ObjBare.Key}
          /\ ListedObjects[i].Key \notin CatalogKeys
          /\ ListedObjects[j].Key \in CatalogKeys

\* C8 as claimed: every object stored under the prefix whose key ends in .csv,
\* whose filename yields a date and whose date lies within the bounds is in the
\* result of list_csv_files, however many objects the prefix holds.
C8_ListsAllObjects ==
    (Listed /\ listing_ok) =>
        \A i \in 1..Len(bucket) :
            LET d == extract_date_from_filename(LastSegment(bucket[i].Key))
            IN  (/\ EndsWith(bucket[i].Key, DotCsv)
                 /\ d # ValueError
                 /\ WithinBounds(d))
                => bucket[i].Key \in CatalogKeys

\* C9: the result of list_csv_files is ascending by date (for all i < j,
\* result[i].date <= result[j].date), and consolidate_reports downloads the
\* files in exactly that order.
C9_CatalogSorted ==
    Listed =>
        /\ \A i, j \in 1..Len(csv_files) :
              i < j => ~DtLess(csv_files[j].date, csv_files[i].date)
        /\ op = "consolidate_reports"
              => downloads = [i \in 1..Len(csv_files) |-> csv_files[i].key]

\* The store lists the file of 2025-10-21 before the one of 2025-10-20; the
\* catalog and the downloads have them the other way round.
C9_Witness ==
    /\ op = "consolidate_reports"
    /\ Len(csv_files) = 2
    /\ bucket[1].Key = csv_files[2].key
    /\ bucket[2].Key = csv_files[1].key
    /\ DtLess(csv_files[1].date, csv_files[2].date)
    /\ downloads = <<bucket[2].Key, bucket[1].Key>>

\* C10: a listed file with extracted date d is returned if and only if
\* (start_date is absent or start_date <= d) and (end_date is absent or
\* d <= end_date).
C10_InclusiveRange ==
    (Listed /\ listing_ok) =>
        \A i \in 1..Len(ListedObjects) :
            LET o == ListedObjects[i]
                d == extract_date_from_filename(LastSegment(o.Key))
            IN  (EndsWith(o.Key, DotCsv) /\ d # ValueError) =>
                    (o.Key \in CatalogKeys <=> WithinBounds(d))

\* Both bounds are 2025-10-20: the files of that day are returned, and the file
\* of the next day is not.
C10_Witness ==
    /\ op = "list_csv_files"
    /\ start_date = DateTime(2025, 10, 20, 0)
    /\ end_date = DateTime(2025, 10, 20, 0)
    /\ ObjA.Key \in CatalogKeys
    /\ \E i \in 1..Len(ListedObjects) :
          /\ ListedObjects[i].Key = ObjC.Key
          /\ ObjC.Key \notin CatalogKeys

\* The catalog without the files whose download or parse raised.
Readable(files) ==
    LET IsReadable(f) == f.key \notin broken
    IN  SelectSeq(files, IsReadable)

\* C11 (per-file failure isolation): when the fetch or the parse of a
\* cataloged file fails, download_and_parse_csv returns the empty batch, and
\* consolidate_reports returns what it would have returned had the failing
\* file not been in the catalog: the deduplicated, sorted union of the records
\* of all the other files.
C11_FailureIsolated ==
    op = "consolidate_reports" =>
        /\ \A k \in 1..Len(downloads) :
              downloads[k] \in broken
                  => download_and_parse_csv(bucket, downloads[k], TRUE) = <<>>
        /\ consolidated_df = consolidate(download_all(bucket, Readable(csv_files), {}))

\* The download of B fails after A was read: the output is A's two rows, with
\* A's 5 for (u1, 2025-10-20).
C11_Witness ==
    /\ op = "consolidate_reports"
    /\ downloads = <<ObjA.Key, ObjB.Key>>
    /\ broken = {ObjB.Key}
    /\ Len(consolidated_df) = 2
    /\ \E r \in 1..Len(consolidated_df) :
          /\ consolidated_df[r].UserId = u1
          /\ consolidated_df[r].Chat_MessagesSent = 5

\* The first 8 digits of the first token of a filename, written YYYY-MM-DD.
TokenStamp ==
    [f \in Filenames \ Malformed |->
        LET i == CHOOSE a \in DelimitedTokens(f) : \A b \in DelimitedTokens(f) : a <= b
        IN  SubSeq(f, i + 1, i + 4) \o <<"-">> \o SubSeq(f, i + 5, i + 6)
            \o <<"-">> \o SubSeq(f, i + 7, i + 8)]

\* C12: every record of a batch returned by download_and_parse_csv carries as
\* ReportDate the date of the filename of its file, written YYYY-MM-DD, which
\* is the date the catalog recorded for that file; every record of the
\* consolidated dataset is a record of one of these batches; the Date column of
\* the row plays no part.
C12_ReportDateFromFilename ==
    op = "consolidate_reports" =>
        /\ \A k \in 1..Len(downloads) :
              LET key == downloads[k]
                  f == LastSegment(key)
                  batch == download_and_parse_csv(bucket, key, key \in broken)
                  body == get_object(bucket, key).Body
              IN  /\ csv_files[k].key = key
                  /\ csv_files[k].date = TokenDate[f]
                  /\ key \notin broken => Len(batch) = Len(body)
                  /\ \A n \in 1..Len(batch) :
                        /\ batch[n].ReportDate = TokenStamp[f]
                        /\ batch[n].UserId = body[n].UserId
                        /\ batch[n].Date = body[n].Date
        /\ \A r \in 1..Len(consolidated_df) :
              \E k \in 1..Len(downloads) :
                  LET batch == download_and_parse_csv(bucket, downloads[k],
                                                      downloads[k] \in broken)
                  IN  \E n \in 1..Len(batch) : batch[n] = consolidated_df[r]

\* The file of 2025-10-21 holds a row whose Date is 2025-10-20: its ReportDate
\* is 2025-10-21.
C12_Witness ==
    /\ op = "consolidate_reports"
    /\ downloads = <<ObjC.Key>>
    /\ \E r \in 1..Len(consolidated_df) :
          /\ consolidated_df[r].UserId = u1
          /\ consolidated_df[r].Date = "2025-10-20"
          /\ consolidated_df[r].ReportDate =
                <<"2", "0", "2", "5", "-", "1", "0", "-", "2", "1">>

(***************************************************************************)
(* Properties of the region aggregator (checked under SpecRegions)         *)
(***************************************************************************)

Ran == run.n > 0

\* The consolidation of the region ran to its end in the last run, and found
\* data, or found none.
YieldedData(region) ==
    run.env[region].fault = "none" /\ datasets[run.env[region].store] # <<>>

YieldedNone(region) ==
    run.env[region].fault = "none" /\ datasets[run.env[region].store] = <<>>

Shown(level, region) ==
    \E i \in 1..Len(run.messages) :
        run.messages[i].level = level /\ run.messages[i].region = region

\* No subprocess failed in the last run and no temp file was there before it.
Undisturbed ==
    /\ \A region \in Range(run.regions) : run.env[region].fault = "none"
    /\ run.stale_read = {}

\* C13 as claimed: in a run where each region's consolidation either finds
\* data or finds none, every region that yields no data gets a warning and no
\* success message, and the run returns success exactly when at least one
\* region yielded data.
C13_NoDataWarned ==
    (Ran /\ Undisturbed) =>
        /\ \A region \in Range(run.regions) :
              YieldedNone(region) =>
                  /\ Shown("warning", region)
                  /\ ~Shown("success", region)
        /\ run.result <=> \E region \in Range(run.regions) : YieldedData(region)

\* C14 as claimed: whatever fails for one region (a non-zero exit, a timeout,
\* an output that cannot be read), every region of the list is processed, and
\* when some region yielded data the run writes the artifact and returns
\* success.
C14_FailureIsolated ==
    Ran =>
        /\ run.processed = run.regions
        /\ (\E region \in Range(run.regions) : YieldedData(region))
              => (run.result /\ run.written # None)

\* C15 as claimed: no run writes its artifact to a path that already exists
\* in data/, whatever the times at which the runs complete.
C15_NeverOverwritten ==
    run.written # None => ~run.existed

\* The rows of df with the given Region, without the two region columns.
RegionRows(df, region) ==
    LET OfRegion(row) == row.Region = region
        tagged == SelectSeq(df, OfRegion)
    IN  [i \in 1..Len(tagged) |->
            [UserId |-> tagged[i].UserId, Date |-> tagged[i].Date,
             Chat_MessagesSent |-> tagged[i].Chat_MessagesSent,
             ReportDate |-> tagged[i].ReportDate]]

HasKey(df, user, date) ==
    \E i \in 1..Len(df) : df[i].UserId = user /\ df[i].Date = date

Connected == identity_store_client # None /\ identity_store_id # None

\* Call i resolved its user from the directory.
Resolved(i) ==
    /\ log[i].op = "get_user_info"
    /\ log[i].describe_user = 1
    /\ log[i].result.source = "iam_identity_center"

\* C1 (cache freshness): once a get(user_id) is resolved by the directory at
\* time t, every later get(user_id) at a time t' with t' - t < 86400 (and no
\* newer resolution in between) returns that record unchanged and issues no
\* describe_user call, and every one with t' - t >= 86400 issues a
\* describe_user call.
C1_CacheFreshness ==
    \A i, j \in 1..Len(log) :
        (/\ i < j
         /\ Resolved(i)
         /\ log[j].op = "get_user_info"
         /\ log[j].user_id = log[i].user_id
         /\ \A k \in (i + 1)..(j - 1) :
               ~(Resolved(k) /\ log[k].user_id = log[i].user_id))
        => IF log[j].at - log[i].at < 86400
           THEN /\ log[j].describe_user = 0
                /\ log[j].result = log[i].result
                /\ log[j].cache_unchanged
           ELSE log[j].describe_user = 1

\* A get resolved at t, a get at t + 86399 served from the cache, and a get at
\* t + 86400 that calls the directory again: two calls for three gets.
C1_Witness ==
    /\ Len(log) = 3
    /\ Resolved(1)
    /\ \A i \in 1..3 : log[i].user_id = UidA
    /\ log[2].at = log[1].at + 86399
    /\ log[2].describe_user = 0
    /\ log[2].result = log[1].result
    /\ log[3].at = log[1].at + 86400
    /\ log[3].describe_user = 1

\* The directory was unreachable for call i: describe_user would fail, or the
\* discovery at construction failed or found no instance.
Unreachable(i) == log[i].directory = "error" \/ ~Connected

\* Call i found a cache entry younger than the TTL.
FoundFresh(i) ==
    /\ log[i].cached_before # None
    /\ log[i].at - log[i].cached_before.cached_at < 86400

\* C2 as claimed: every get made while the directory is unreachable, in any of
\* the ways it can be (describe_user failing, or the discovery at construction
\* having failed or found no instance), and not served by a fresh cache entry,
\* issues one directory call (N gets, N calls).
C2_Original ==
    \A i \in 1..Len(log) :
        (log[i].op = "get_user_info" /\ Unreachable(i) /\ ~FoundFresh(i))
        => log[i].describe_user = 1

\* C2 (fallback non-persistence), amended: in every run of consecutive
\* get(user_id) calls for one user_id made while the directory is unreachable,
\* the first of which finds no fresh cache entry, every call returns a
\* fallback that is not cached; on a connected mapper every call issues
\* exactly one describe_user call (N gets, N calls), and on a mapper whose
\* discovery failed no call issues any.
C2_FallbackNotPersisted ==
    \A i, j \in 1..Len(log) :
        (/\ i <= j
         /\ ~FoundFresh(i)
         /\ \A k \in i..j :
               /\ log[k].op = "get_user_info"
               /\ log[k].user_id = log[i].user_id
               /\ Unreachable(k))
        => \A k \in i..j :
              /\ log[k].describe_user = IF Connected THEN 1 ELSE 0
              /\ log[k].result.source = "fallback"
              /\ log[k].cache_unchanged
              /\ ~FoundFresh(k)

\* Three consecutive gets of UidA on a connected mapper with the directory
\* down, each within the TTL of the one before: three describe_user calls.
C2_Witness ==
    /\ Connected
    /\ Len(log) = 3
    /\ \A k \in 1..3 :
          /\ log[k].user_id = UidA
          /\ log[k].directory = "error"
          /\ log[k].cached_before = None
          /\ log[k].describe_user = 1
          /\ log[k].result.source = "fallback"
    /\ log[3].at - log[1].at < 86400

Last == log[Len(log)]

\* C3: a get(user_id) for an id with no cache entry whose directory lookup
\* fails or reports not-found returns the fallback record (source = fallback,
\* username = display_name = "User-" and the first 8 characters of the id),
\* invokes no save_cache, and leaves the cache and the store file as they
\* were, with no entry for the id.
C3_FallbackLeavesNoTrace ==
    (/\ log # <<>>
     /\ Last.op = "get_user_info"
     /\ Last.cached_before = None
     /\ Last.directory \in {"error", "not_found"})
    => /\ Last.result.source = "fallback"
       /\ Last.result.user_id = Last.user_id
       /\ Last.result.username = Last.result.display_name
       /\ Len(Last.result.username) <= 5 + 8
       /\ \A n \in 1..Len(Last.result.username) :
             Last.result.username[n] =
                 IF n <= 5 THEN <<"U", "s", "e", "r", "-">>[n] ELSE Last.user_id[n - 5]
       /\ Len(Last.result.username) = 5 + (IF Len(Last.user_id) < 8
                                           THEN Len(Last.user_id) ELSE 8)
       /\ Last.save_cache = 0
       /\ Last.cache_unchanged
       /\ Last.file_unchanged
       /\ Last.user_id \notin DOMAIN user_cache
       /\ Last.user_id \notin DOMAIN cache_file

\* The directory answers the 13-character id UidA with an error on a connected
\* mapper: the name is User-9448a4f8, and nothing is cached.
C3_Witness ==
    /\ Connected
    /\ log # <<>>
    /\ Last.user_id = UidA
    /\ Last.cached_before = None
    /\ Last.directory = "error"
    /\ Last.describe_user = 1
    /\ Last.result.display_name =
          <<"U", "s", "e", "r", "-", "9", "4", "4", "8", "a", "4", "f", "8">>
    /\ UidA \notin DOMAIN user_cache

\* The calls that asked the directory and got the user's attributes.
FromDirectory(i) ==
    /\ log[i].op = "get_user_info"
    /\ log[i].describe_user = 1
    /\ log[i].response # ClientError

\* The record the directory's answer stands for: its username, display name,
\* first e-mail address (empty when it has none), given and family names.
CarriesResponse(user_info, response) ==
    /\ user_info.username = response.UserName
    /\ user_info.display_name = response.DisplayName
    /\ user_info.email = (IF response.Emails = <<>> THEN <<>>
                          ELSE response.Emails[1].Value)
    /\ user_info.first_name = response.GivenName
    /\ user_info.last_name = response.FamilyName

C18_ReturnsCopies ==
    (held # None /\ held.cached) =>
        /\ held.user_id \in DOMAIN user_cache
        /\ user_cache[held.user_id] = held.returned

\* C19: over bulk_get_users (get_user_info for each id of the list),
\* search_user_by_username and list_all_users calls on one mapper, no call
\* takes a user id out of the cache, and an entry a call changes is afterwards
\* a directory record with a later cached_at.
C19_CacheGrows ==
    [][\A k \in DOMAIN user_cache :
          /\ k \in DOMAIN user_cache'
          /\ \/ user_cache'[k] = user_cache[k]
             \/ /\ user_cache'[k].source = "iam_identity_center"
                /\ user_cache'[k].user_id = k
                /\ user_cache'[k].cached_at > user_cache[k].cached_at]_vars

\* list_all_users over a cache that held UidA and UidB: UidB, which the
\* directory does not list, is kept as it was; UidA is replaced by a later
\* record; UidC is new.
C19_Witness ==
    /\ call.op = "list_all_users"
    /\ {UidA, UidB} \subseteq DOMAIN call.before
    /\ UidC \notin DOMAIN call.before
    /\ DOMAIN user_cache = {UidA, UidB, UidC}
    /\ user_cache[UidB] = call.before[UidB]
    /\ user_cache[UidA].cached_at > call.before[UidA].cached_at

\* The users of all pages of a listing, in page order.
RECURSIVE AllUsers(_)
AllUsers(listing) ==
    IF listing = <<>> THEN <<>>
    ELSE Head(listing).Users \o AllUsers(Tail(listing))

\* A list_all_users call on a connected mapper whose page requests all
\* succeeded.
ListedAll ==
    /\ call.op = "list_all_users"
    /\ Connected
    /\ \A p \in DOMAIN call.arg : call.arg[p] # ClientError

\* C20: when every page request succeeds, list_all_users requests the pages
\* one after the other until a page carries no token, returns one record per
\* user of every page in page order, each with the user's attributes and
\* source = directory, and on return the cache maps each returned user's id
\* to that record.
C20_ListAllPaginates ==
    ListedAll =>
        /\ ~call.raised
        /\ call.tokens = [p \in DOMAIN call.arg |-> call.arg[p].NextToken]
        /\ call.tokens[Len(call.tokens)] = None
        /\ Len(call.result) = Len(AllUsers(call.arg))
        /\ \A i \in DOMAIN call.result :
              /\ call.result[i].user_id = AllUsers(call.arg)[i].UserId
              /\ CarriesResponse(call.result[i], AllUsers(call.arg)[i])
              /\ call.result[i].source = "iam_identity_center"
              /\ call.result[i].user_id \in DOMAIN user_cache
              /\ user_cache[call.result[i].user_id] = call.result[i]

\* A listing of three pages, one of them empty, read to its end.
C20_Witness ==
    /\ ListedAll
    /\ call.tokens = <<Token(2), Token(3), None>>
    /\ Len(call.result) = 2
    /\ call.result[1].user_id = UidC
    /\ call.result[2].user_id = UidA
    /\ user_cache[UidA] = call.result[2]

\* The regions whose subprocess ran to its end without a fault, over a prefix
\* that holds no report.
EndedWithoutData ==
    {region \in DOMAIN run.returncodes :
        /\ run.env[region].fault = "none"
        /\ datasets[run.env[region].store] = <<>>}

\* C21: a consolidation subprocess that finds no data ends with a non-zero
\* exit status, so that the aggregator, which looks at the exit status, does
\* not take it for a success.
C21_NoDataExitsNonZero ==
    Ran => \A region \in EndedWithoutData :
              /\ run.returncodes[region] # 0
              /\ ~Shown("success", region)

\* C22: the rows of the multi-region artifact, as a consumer reads them from
\* the file, are in ascending order of (ReportDate, UserId).
C22_ArtifactSorted ==
    (Ran /\ run.written # None) =>
        LET df == read_csv(run.written.doc)
        IN  \A i \in 1..(Len(df) - 1) :
                \/ StrLess(df[i].ReportDate, df[i + 1].ReportDate)
                \/ /\ df[i].ReportDate = df[i + 1].ReportDate
                   /\ (df[i].UserId = df[i + 1].UserId
                       \/ StrLess(df[i].UserId, df[i + 1].UserId))

NoData ==
    /\ op = "consolidate_reports"
    /\ (~listing_ok \/ csv_files = <<>> \/ InputRows = <<>>)

\* C24: when the listing fails, the catalog is empty or every cataloged file
\* yields an empty batch, consolidate_reports returns the empty DataFrame, has
\* printed that it found no files or no valid data (after the listing error,
\* if there was one), and does not raise.
C24_NoDataNotAnError ==
    NoData =>
        /\ consolidated_df = <<>>
        /\ ~diagnostic.raised
        /\ diagnostic.messages # <<>>
        /\ diagnostic.messages[Len(diagnostic.messages)]
              = (IF csv_files = <<>> THEN "no_files" ELSE "no_valid_data")
        /\ ~listing_ok => diagnostic.messages[1] = "listing_failed"

\* A catalog of two files, one without rows and one whose download failed.
C24_Witness ==
    /\ NoData
    /\ listing_ok
    /\ Len(csv_files) = 2
    /\ Cardinality(broken) = 1
    /\ diagnostic.messages = <<"file_failed", "no_valid_data">>
    /\ consolidated_df = <<>>

\* C25 as stated: list_instances is requested exactly once, at
\* construction, and a mapper whose store id is unset makes no directory
\* request.
C25_Original ==
    /\ list_instances = 1
    /\ (call.n > 0 /\ identity_store_id = None) => call.directory_calls = 0

\* C25: list_instances is requested at construction only: once when the
\* clients could be created, not at all when boto3.client raised; and a
\* mapper that is not connected (no client, or no store id) makes no
\* directory request in bulk_get_users, search_user_by_username or
\* list_all_users.
C25_DiscoveryAtConstruction ==
    /\ list_instances = (IF identity_store_client # None THEN 1 ELSE 0)
    /\ identity_store_id # None => list_instances = 1
    /\ (call.n > 0 /\ ~Connected) =>
          /\ call.directory_calls = 0
          /\ call.tokens = <<>>
          /\ user_cache = call.before

\* The second call on a mapper whose discovery returned no instance, a
\* list_all_users: it made no directory request.
C25_Witness ==
    /\ call.n = 2
    /\ identity_store_client # None
    /\ identity_store_id = None
    /\ list_instances = 1
    /\ call.op = "list_all_users"
    /\ call.directory_calls = 0

\* C26: the store file is read at construction only (what a mapper holds
\* from before its start is what it loaded then), and a save writes the
\* writer's whole cache: right after a process has written, the file is that
\* process's cache, whatever another process had put there.
C26_LastWriterWins ==
    /\ \A p \in Processes :
          mappers[p].started =>
              \A k \in DOMAIN mappers[p].user_cache :
                  mappers[p].user_cache[k].cached_at <= mappers[p].at =>
                      /\ k \in DOMAIN mappers[p].loaded
                      /\ mappers[p].loaded[k] = mappers[p].user_cache[k]
    /\ (last_save.by # "none" /\ last_save.step = steps) =>
          load_cache(cache_file) = mappers[last_save.by].user_cache

\* A lost update: P1 persisted UidC after P2 had read the file, and P2's save
\* has just taken UidC out of the file, while P1 still holds it.
C26_Witness ==
    /\ last_save.by = "P2"
    /\ last_save.step = steps
    /\ UidC \in last_save.dropped
    /\ UidC \notin DOMAIN cache_file
    /\ UidC \notin DOMAIN mappers["P2"].loaded
    /\ UidC \in DOMAIN mappers["P1"].user_cache
    /\ cache_file = mappers["P2"].user_cache

\* C27: from a store that is empty or holds directory records only, after
\* any bulk_get_users (get_user_info for each id), search_user_by_username
\* and list_all_users calls, with the directory answering or failing, every
\* cache entry is a directory record filed under its own user id, and
\* get_cache_stats counts no default record.
C27_OnlyDirectoryEntries ==
    /\ \A k \in DOMAIN user_cache :
          /\ user_cache[k].source = "iam_identity_center"
          /\ user_cache[k].user_id = k
    /\ LET stats == get_cache_stats(user_cache, identity_store_client,
                                    identity_store_id)
       IN  /\ stats.fallback_users = 0
           /\ stats.iam_users = stats.total_users
           /\ stats.total_users = Cardinality(DOMAIN user_cache)

\* A bulk_get_users call that returned a default record for UidB and a
\* directory record for UidA, over a cache of three users.
C27_Witness ==
    /\ call.op = "bulk_get_users"
    /\ call.arg = <<UidB, UidA>>
    /\ call.result[UidB].source = "fallback"
    /\ call.result[UidA].source = "iam_identity_center"
    /\ call.result[UidA].cached_at = call.at
    /\ DOMAIN user_cache = {UidA, UidB, UidC}
    /\ get_cache_stats(user_cache, identity_store_client,
                       identity_store_id).iam_users = 3

\* Call i found an entry of TTL age or more, asked the directory, and got no
\* answer (an error, or an unknown user).
StaleAndFailed(i) ==
    /\ log[i].op = "get_user_info"
    /\ log[i].cached_before # None
    /\ log[i].at - log[i].cached_before.cached_at >= TTL
    /\ log[i].describe_user = 1
    /\ log[i].response = ClientError

\* C28: a get(user_id) that finds a stale entry and whose directory lookup
\* fails returns the default record (source = fallback, placeholder names)
\* and not the stale identity, saves nothing and leaves the cache and the
\* store file as they were; the next get(user_id) finds the same stale entry
\* and asks the directory again.
C28_StaleNotServed ==
    \A i \in 1..Len(log) :
        StaleAndFailed(i) =>
            /\ log[i].result = Fallback(log[i].user_id, log[i].at)
            /\ log[i].result.source = "fallback"
            /\ log[i].result.username = log[i].result.display_name
            /\ SubSeq(log[i].result.username, 1, Len(UserDash)) = UserDash
            /\ log[i].result # log[i].cached_before
            /\ log[i].save_cache = 0
            /\ log[i].cache_unchanged
            /\ log[i].file_unchanged
            /\ \A j \in (i + 1)..Len(log) :
                  (/\ log[j].user_id = log[i].user_id
                   /\ \A m \in (i + 1)..(j - 1) : log[m].user_id # log[i].user_id)
                  => /\ log[j].cached_before = log[i].cached_before
                     /\ log[j].describe_user = 1

\* The stale entry of UidA outlives a failed lookup and is refreshed by the
\* next get, which asks the directory again.
C28_Witness ==
    /\ Len(log) >= 2
    /\ \E i \in 1..(Len(log) - 1) :
          /\ StaleAndFailed(i)
          /\ log[i].user_id = UidA
          /\ log[i].directory = "error"
          /\ log[i + 1].user_id = UidA
          /\ log[i + 1].cached_before = log[i].cached_before
          /\ log[i + 1].describe_user = 1
          /\ log[i + 1].result.source = "iam_identity_center"

\* C29: with the store file writable throughout, whenever bulk_get_users
\* (get_user_info for each id), search_user_by_username or list_all_users
\* has returned, the document in the store file is the cache in memory.
C29_PersistedEqualsCache ==
    (call.n > 0 /\ call.writable) => load_cache(cache_file) = user_cache

\* C30: in every run, a temp file is read as a region's data only if this
\* run's subprocess for the region wrote it, so the rows tagged with a region
\* are those of this run's consolidation of it; and when the run has returned
\* no temp file of a region it processed is left in data/.
C30_OnlyThisRunsData ==
    Ran =>
        /\ run.stale_read = {}
        /\ run.written # None =>
              \A region \in Range(run.regions) :
                  RegionRows(read_csv(run.written.doc), region) =
                      (IF YieldedData(region)
                       THEN datasets[run.env[region].store] ELSE <<>>)
        /\ \A region \in Range(run.processed) : region \notin DOMAIN temp_files

====
